---- MODULE Spec2Model ----
(***************************************************************************)
(* Model of promshell's argument-completion engine                         *)
(* (src/promshell/completion/argcompleter.py) and of the argument          *)
(* descriptors it walks (src/promshell/arguments.py).                      *)
(*                                                                         *)
(* A Python str is a sequence of one-character strings, so that split,    *)
(* partition, startswith and endswith are computed as Python computes     *)
(* them.  None is the empty sequence <<>> of an "optional" (a sequence of *)
(* length 0 or 1).                                                         *)
(***************************************************************************)
EXTENDS Integers, Sequences, FiniteSets, TLC

(***************************************************************************)
(* Bounds of the model.                                                    *)
(***************************************************************************)
\* largest number of words on an input line
MaxWords == 3
\* largest number of comma separated segments of a key-value fragment
MaxSegs == 2

(***************************************************************************)
(* Python str operations.                                                  *)
(***************************************************************************)
\* str.isspace() of one character / the regex class \s
IsSpace(ch) == ch \in {" ", "\t"}

\* the regex class [a-zA-Z0-9_] of prompt_toolkit's _FIND_WORD_RE
IsWordChar(ch) ==
    ch \in {"a", "b", "c", "d", "e", "f", "g", "h", "i", "j", "k", "l", "m",
            "n", "o", "p", "q", "r", "s", "t", "u", "v", "w", "x", "y", "z",
            "0", "1", "2", "3", "4", "5", "6", "7", "8", "9", "_"}

\* s.startswith(p)
StartsWith(s, p) == Len(p) <= Len(s) /\ SubSeq(s, 1, Len(p)) = p

\* s.endswith(' ')
EndsWithSpace(s) == Len(s) > 0 /\ s[Len(s)] = " "

\* s.lstrip()
RECURSIVE LStrip(_)
LStrip(s) == IF s # <<>> /\ IsSpace(Head(s)) THEN LStrip(Tail(s)) ELSE s

\* s.split(): the maximal runs of non-whitespace characters, in order
RECURSIVE SplitFrom(_, _, _)
SplitFrom(s, cur, acc) ==
    IF s = <<>>
    THEN IF cur = <<>> THEN acc ELSE Append(acc, cur)
    ELSE IF IsSpace(Head(s))
         THEN SplitFrom(Tail(s), <<>>, IF cur = <<>> THEN acc ELSE Append(acc, cur))
         ELSE SplitFrom(Tail(s), Append(cur, Head(s)), acc)

Split(s) == SplitFrom(s, <<>>, <<>>)

\* s.split(sep) for a one-character sep: empty pieces are kept
RECURSIVE SplitOnFrom(_, _, _, _)
SplitOnFrom(s, sep, cur, acc) ==
    IF s = <<>>
    THEN Append(acc, cur)
    ELSE IF Head(s) = sep
         THEN SplitOnFrom(Tail(s), sep, <<>>, Append(acc, cur))
         ELSE SplitOnFrom(Tail(s), sep, Append(cur, Head(s)), acc)

SplitOn(s, sep) == SplitOnFrom(s, sep, <<>>, <<>>)

\* the index of the first occurrence of sub in s, 0 when there is none
FindFirst(s, sub) ==
    LET hits == {i \in 1..(Len(s) - Len(sub) + 1) :
                    SubSeq(s, i, i + Len(sub) - 1) = sub}
    IN  IF hits = {} THEN 0 ELSE CHOOSE i \in hits : \A j \in hits : i <= j

\* s.partition(sep): <<before, sep, after>> at the first occurrence of sep,
\* <<s, '', ''>> when sep does not occur
Partition(s, sep) ==
    LET i == FindFirst(s, sep)
    IN  IF i = 0
        THEN <<s, <<>>, <<>>>>
        ELSE <<SubSeq(s, 1, i - 1), sep, SubSeq(s, i + Len(sep), Len(s))>>

\* the elements of a sequence
Range(s) == {s[i] : i \in 1..Len(s)}

(***************************************************************************)
(* prompt_toolkit: Document and WordCompleter, as the engine uses them.    *)
(* A document is [text, cursor]; the text before the cursor is its first  *)
(* cursor characters.                                                      *)
(***************************************************************************)
TextBeforeCursor(doc) == SubSeq(doc.text, 1, doc.cursor)

\* the regex alternative a character falls in
CharClass(ch) ==
    IF IsSpace(ch) THEN "space" ELSE IF IsWordChar(ch) THEN "word" ELSE "other"

\* the length of the longest suffix of s made of characters of the class of
\* its last character
SuffixRun(s) ==
    LET cls == CharClass(s[Len(s)])
        runs == {n \in 1..Len(s) :
                    \A i \in (Len(s) - n + 1)..Len(s) : CharClass(s[i]) = cls}
    IN  CHOOSE n \in runs : \A m \in runs : m <= n

\* Document.get_word_before_cursor(): '' after whitespace or at the start,
\* else the last run of word characters or of other non-space characters
WordBeforeCursor(doc) ==
    LET tb == TextBeforeCursor(doc)
    IN  IF tb = <<>> \/ IsSpace(tb[Len(tb)]) THEN <<>>
        ELSE SubSeq(tb, Len(tb) - SuffixRun(tb) + 1, Len(tb))

\* WordCompleter(words).get_completions(document, event): the words that
\* start with the word before the cursor, in the order of the list
WordCompleter(words, doc) ==
    LET w == WordBeforeCursor(doc)
        Keep(a) == StartsWith(a, w)
    IN  SelectSeq(words, Keep)

(***************************************************************************)
(* The strings of the model.                                               *)
(***************************************************************************)
s_pos1 == <<"p", "o", "s", "1">>
s_o1 == <<"-", "o", "1">>
s_o2 == <<"-", "o", "2">>
s_val == <<"v", "a", "l">>
s_val1 == <<"v", "a", "l", "1">>
s_val2 == <<"v", "a", "l", "2">>
s_o2_value == <<"<", "o", "2", "_", "v", "a", "l", "u", "e", ">">>
s_dash == <<"-">>
s_p1 == <<"p", "1">>
s_p2 == <<"p", "2">>
s_sw == <<"s", "w">>
s_s == <<"-", "s">>
s_long_sw == <<"-", "-", "s", "w">>
s_opt == <<"o", "p", "t">>
s_o == <<"-", "o">>
s_long_opt == <<"-", "-", "o", "p", "t">>
s_a == <<"a">>
s_a_flag == <<"-", "a">>
s_b_flag == <<"-", "b">>
s_lt_t_gt == <<"<", "t", ">">>
s_b == <<"b">>
s_metric == <<"m", "e", "t", "r", "i", "c">>
s_lt_metric_gt == <<"<", "m", "e", "t", "r", "i", "c", ">">>
s_label_exp == <<"l", "a", "b", "e", "l", "_", "e", "x", "p">>
s_lt_label_exp_gt == <<"<", "l", "a", "b", "e", "l", "_", "e", "x", "p", ">">>
s_l == <<"-", "l">>
s_long_label == <<"-", "-", "l", "a", "b", "e", "l">>
s_raw_params == <<"r", "a", "w", "_", "p", "a", "r", "a", "m", "s">>
s_lt_raw_params_gt == <<"<", "r", "a", "w", "_", "p", "a", "r", "a", "m", "s", ">">>
s_r == <<"-", "r">>
s_long_raw_params == <<"-", "-", "r", "a", "w", "-", "p", "a", "r", "a", "m", "s">>
s_up == <<"u", "p">>
s_job == <<"j", "o", "b">>
s_instance == <<"i", "n", "s", "t", "a", "n", "c", "e">>
s_inst == <<"i", "n", "s", "t">>
s_prometheus == <<"p", "r", "o", "m", "e", "t", "h", "e", "u", "s">>
s_store_true == <<"s", "t", "o", "r", "e", "_", "t", "r", "u", "e">>
s_store_false == <<"s", "t", "o", "r", "e", "_", "f", "a", "l", "s", "e">>
s_help_metric ==
    <<"m", "e", "t", "r", "i", "c", " ", "n", "a", "m", "e">>
s_help_label_exp ==
    <<"l", "i", "s", "t", " ", "o", "f", " ", "c", "o", "m", "m", "a", "-",
      "s", "e", "p", "a", "r", "a", "t", "e", "d", " ", "<", "l", "a", "b",
      "e", "l", ">", "[", "o", "p", "]", "<", "v", "a", "l", "u", "e", ">",
      " ", "e", "l", "e", "m", "e", "n", "t", "s">>
s_help_raw_params ==
    <<"r", "a", "w", " ", "R", "E", "S", "T", " ", "p", "a", "r", "a", "m",
      "e", "t", "e", "r", "s">>
s_nargs == <<"?">>
\* the literals of KeyValueCompleter.get_completions
s_comma == <<",">>
s_value_placeholder == <<"<", "v", "a", "l", "u", "e", ">", "[", ",", "]">>
\* Series.OPERATORS
s_eq == <<"=">>
s_eq_re == <<"=", "~">>
s_ne == <<"!", "=">>
s_ne_re == <<"!", "~">>

OPERATORS == <<s_eq, s_eq_re, s_ne, s_ne_re>>

(***************************************************************************)
(* ArgDescriptor (src/promshell/arguments.py).  A descriptor is a dict    *)
(* subclass: kw holds the dict's items, name and flags are attributes.    *)
(* Python compares two descriptors as dicts, that is by kw alone.         *)
(***************************************************************************)
\* the keyword arguments of a descriptor with none given
NoKw == [flags |-> <<>>, action |-> <<>>, dest |-> <<>>, metavar |-> <<>>,
         choices |-> <<>>, help |-> <<>>, nargs |-> <<>>]

\* '<%s>' % dest
Bracket(x) == <<"<">> \o x \o <<">">>

\* ArgDescriptor.__init__(name, **kwargs)
ArgDescriptor(name, kwargs) ==
    LET has_flags == kwargs.flags # <<>>
        dest == IF has_flags /\ kwargs.dest = <<>> THEN <<name>> ELSE kwargs.dest
        label == IF dest # <<>> /\ dest[1] # <<>> THEN dest[1] ELSE name
    IN  [name  |-> name,
         flags |-> IF has_flags THEN kwargs.flags ELSE <<name>>,
         kw    |-> [action  |-> kwargs.action,
                    dest    |-> dest,
                    metavar |-> IF kwargs.metavar # <<>> THEN kwargs.metavar
                                ELSE <<Bracket(label)>>,
                    choices |-> kwargs.choices,
                    help    |-> kwargs.help,
                    nargs   |-> kwargs.nargs]]

metavar(desc) == desc.kw.metavar[1]

\* self.get('choices', [self.metavar])
choices(desc) ==
    IF desc.kw.choices # <<>> THEN desc.kw.choices[1] ELSE <<metavar(desc)>>

is_positional(desc) == ~StartsWith(desc.flags[1], s_dash)

is_flag(desc) ==
    /\ desc.kw.action # <<>>
    /\ desc.kw.action[1] \in {s_store_true, s_store_false}

\* list.remove(x): drops the first element equal to x (dict equality)
Remove(list, x) ==
    LET hits == {i \in 1..Len(list) : list[i].kw = x.kw}
        i == CHOOSE k \in hits : \A j \in hits : k <= j
    IN  IF hits = {} THEN list
        ELSE SubSeq(list, 1, i - 1) \o SubSeq(list, i + 1, Len(list))

(***************************************************************************)
(* Descriptor sets handed to the ArgumentCompleter constructor, as dicts  *)
(* in key order.                                                           *)
(***************************************************************************)
\* the descriptor set of the completion tests: a positional, an option with
\* two choices and an option with a metavar
TEST_ARG_SPEC ==
    << [key |-> s_pos1, kwargs |-> NoKw],
       [key |-> s_o1, kwargs |-> [NoKw EXCEPT !.choices = << <<s_val1, s_val2>> >>]],
       [key |-> s_o2, kwargs |-> [NoKw EXCEPT !.metavar = <<s_o2_value>>]] >>

\* a switch with an alias, an option with an alias declared between two
\* positionals
MIXED_ARG_SPEC ==
    << [key |-> s_sw, kwargs |-> [NoKw EXCEPT !.flags = <<s_s, s_long_sw>>,
                                              !.action = <<s_store_true>>]],
       [key |-> s_p1, kwargs |-> NoKw],
       [key |-> s_opt, kwargs |-> [NoKw EXCEPT !.flags = <<s_o, s_long_opt>>,
                                               !.choices = << <<s_a, s_b>> >>]],
       [key |-> s_p2, kwargs |-> NoKw] >>

\* Series.ARG_SPEC
SERIES_ARG_SPEC ==
    << [key |-> s_metric,
        kwargs |-> [NoKw EXCEPT !.help = <<s_help_metric>>,
                                !.nargs = <<s_nargs>>,
                                !.metavar = <<s_lt_metric_gt>>]],
       [key |-> s_label_exp,
        kwargs |-> [NoKw EXCEPT !.flags = <<s_l, s_long_label>>,
                                !.help = <<s_help_label_exp>>,
                                !.nargs = <<s_nargs>>,
                                !.metavar = <<s_lt_label_exp_gt>>]],
       [key |-> s_raw_params,
        kwargs |-> [NoKw EXCEPT !.flags = <<s_r, s_long_raw_params>>,
                                !.help = <<s_help_raw_params>>,
                                !.nargs = <<s_nargs>>,
                                !.metavar = <<s_lt_raw_params_gt>>]] >>

\* two options named by their flag that share a metavar, and a positional:
\* the dicts of the two options hold the same items
TWIN_ARG_SPEC ==
    << [key |-> s_a_flag, kwargs |-> [NoKw EXCEPT !.metavar = <<s_lt_t_gt>>]],
       [key |-> s_b_flag, kwargs |-> [NoKw EXCEPT !.metavar = <<s_lt_t_gt>>]],
       [key |-> s_p1, kwargs |-> NoKw] >>

ArgSpecs == {TEST_ARG_SPEC, MIXED_ARG_SPEC, SERIES_ARG_SPEC, TWIN_ARG_SPEC}

\* ArgumentCompleter.__init__ for a dict: one ArgDescriptor per key
BuildDescList(arg_desc_set) ==
    [i \in 1..Len(arg_desc_set) |->
        ArgDescriptor(arg_desc_set[i].key, arg_desc_set[i].kwargs)]

(***************************************************************************)
(* KeyValueCompleter.get_completions                                       *)
(***************************************************************************)
\* the empty completion, Completion('')
Sentinel == <<>>

\* the for loop over the operators: the partition at the first operator, in
\* configured order, that occurs in key_value; without any, the partition
\* at the last operator tried
SplitKeyValue(key_value, operators) ==
    LET found == {i \in 1..Len(operators) :
                     Partition(key_value, operators[i])[2] # <<>>}
        i == IF found = {} THEN Len(operators)
             ELSE CHOOSE k \in found : \A j \in found : k <= j
    IN  Partition(key_value, operators[i])

\* list.remove(key) on a list of strings
RemoveStr(list, x) ==
    LET hits == {i \in 1..Len(list) : list[i] = x}
        i == CHOOSE k \in hits : \A j \in hits : k <= j
    IN  IF hits = {} THEN list
        ELSE SubSeq(list, 1, i - 1) \o SubSeq(list, i + 1, Len(list))

\* the keys left after the segments before the last one
RECURSIVE UsedKeys(_, _, _)
UsedKeys(used_keys, key_value_items, operators) ==
    IF Len(key_value_items) <= 1 THEN used_keys
    ELSE LET expression == SplitKeyValue(Head(key_value_items), operators)
             key == expression[1]
         IN  UsedKeys(RemoveStr(used_keys, key), Tail(key_value_items), operators)

\* a working list that is self.key_names itself: what is removed from
\* used_keys is removed from the configured keys
key_names_after_in_place(key_names, used_keys) == used_keys

\* used_keys = self.key_names.copy(): self.key_names after the call, whatever
\* was removed from used_keys
key_names_after(key_names, used_keys) == key_names

\* a last segment that never switches the key suggestions off
provide_keys_always(expression) == TRUE

\* provide_keys after the last segment: switched off by the operator branch
\* and by the value branch
provide_keys(expression) ==
    /\ ~(expression[1] # <<>> /\ expression[2] = <<>>)
    /\ ~(expression[2] # <<>>)

\* an operator branch that offers the first operator only
OperatorCompletions_first(operators) == <<operators[1]>>

\* for op in self.operators: yield Completion(op)
OperatorCompletions(operators) == operators

\* a value branch that offers the placeholder whatever the value
ValueCompletions_placeholder(value) == <<s_value_placeholder>>

\* the branch of a last segment with an operator: ',' after a value, the
\* placeholder without one
ValueCompletions(value) ==
    IF value # <<>> THEN <<s_comma>> ELSE <<s_value_placeholder>>

\* an empty key set that adds nothing
EmptyKeysCompletion_none(key_names) == <<>>

\* the completion the empty key set adds in front
EmptyKeysCompletion(key_names) ==
    IF key_names = <<>> THEN <<Sentinel>> ELSE <<>>

\* context is a CompletionContext
KeyValueCompleter(key_names, operators, context) ==
    LET key_value_items == SplitOn(context.word, ",")
        used_keys == UsedKeys(key_names, key_value_items, operators)
        expression == SplitKeyValue(key_value_items[Len(key_value_items)], operators)
        value == expression[3]
    IN  EmptyKeysCompletion(key_names)
        \o (IF expression[1] # <<>> /\ expression[2] = <<>>
            THEN OperatorCompletions(operators)
            ELSE IF expression[2] # <<>>
                 THEN ValueCompletions(value)
                 ELSE IF value # <<>> THEN <<s_comma>> ELSE <<>>)
        \o (IF provide_keys(expression)
            THEN WordCompleter(used_keys, context.document) ELSE <<>>)

(***************************************************************************)
(* State.  heap holds the Python lists of descriptors: heap[TemplateRef]   *)
(* is the completer's self.arg_desc_list, heap[c] the list a completion    *)
(* call c allocates; a State refers to its list by reference.              *)
(***************************************************************************)
VARIABLES
    arg_desc_set,     \* the descriptor set the completer was constructed from
    value_completer,  \* the completer's ValueCompleter: "None" or "GetSeries"
    metrics,          \* HandlerContext.metrics
    labels,           \* HandlerContext.labels
    heap,             \* reference -> list of descriptors
    st,               \* call -> the State of the call and its progress;
                      \* contexts holds the CompletionContext objects the
                      \* call handed to the value completer;
                      \* positional_words is a history field: the number of
                      \* words consumed so far that were space-terminated,
                      \* matched no remaining flag and did not directly
                      \* follow a matched flag; resolve_calls is a history
                      \* field: the number of resolve_completion calls made
    prev,             \* the outcome of the previous call, kept when the same
                      \* document is completed again
    kv,               \* the last direct KeyValueCompleter call
    completer,        \* an ArgumentCompleter constructed from an arbitrary
                      \* object: the object, the progress of __init__ and
                      \* its outcome
    objects,          \* reference -> contents of a list of names
    slots,            \* attribute holding a list of names -> reference
    refresh,          \* the refresh under way and the list it assigns next
    reader,           \* a completion iterating over the list of a slot;
                      \* live is a history field: the contents of the lists
                      \* the slot has held since the completion read it
    description,      \* ShellCompleter.description: name -> completer
    nested,           \* ShellCompleter.nested: the NestedCompleter object
                      \* (id) and its options, name -> completer
    set_calls,        \* history: the set_completer calls made, in order
    handler_map,      \* Shell.handler_map: name -> handler
    subparser_map,    \* Shell.subparser_map: name -> parser
    register,         \* the register_handler calls made after construction
                      \* and what the last one raised
    run,              \* Shell.run: the position in the loop, the line read,
                      \* the parsed arguments, and as history the number of
                      \* lines read and what each of them led to
    handler_call,     \* the last get_completions call made on a handler:
                      \* the handler, the CompletionContext and the outcome
    net               \* the HTTPConnection objects created so far (their
                      \* host and port), the one HandlerFactory and the one
                      \* HandlerContext hold, the address and the result of
                      \* the last connect command, and as history the
                      \* number of connect commands and the requests sent

\* the live name lists, their refresh and their reader
refresh_vars == <<objects, slots, refresh, reader>>

\* the ShellCompleter
shell_vars == <<description, nested, set_calls>>

\* the maps of the Shell
registry_vars == <<handler_map, subparser_map, register, run, net, handler_call>>

\* the state outside the completion calls of the completer
side_vars == <<completer, refresh_vars, shell_vars, registry_vars>>

vars == <<arg_desc_set, value_completer, metrics, labels, heap, st, prev, kv,
          side_vars>>

Calls == {1}
TemplateRef == 0

\* no exception
NoError == "none"

Idle == [pc |-> "idle", document |-> [text |-> <<>>, cursor |-> 0],
         trailing_space |-> FALSE, word_list |-> <<>>,
         arg_desc_list |-> TemplateRef, arg_descriptor |-> <<>>,
         kind |-> "", items |-> <<>>, raised |-> NoError,
         contexts |-> <<>>, positional_words |-> 0, resolve_calls |-> 0]

NoKv == [called |-> FALSE, key_names |-> <<>>, self_key_names |-> <<>>,
         operators |-> <<>>,
         word |-> <<>>, document |-> [text |-> <<>>, cursor |-> 0],
         expression |-> <<>>, items |-> <<>>]

(***************************************************************************)
(* The value completers.                                                   *)
(***************************************************************************)
\* GetSeries.get_completions(context) with
\* AbstractGetHandler.complete_word_for_choices
GetSeries_get_completions(context) ==
    IF context.arg_descriptor.name = s_metric /\ metrics # <<>>
    THEN WordCompleter(metrics, context.document)
    ELSE IF context.arg_descriptor.name = s_label_exp /\ labels # <<>>
         THEN KeyValueCompleter(labels, OPERATORS, context)
         ELSE WordCompleter(<<metavar(context.arg_descriptor)>>, context.document)

(***************************************************************************)
(* ArgumentCompleter.State                                                 *)
(***************************************************************************)
\* a State that keeps the completer's list instead of copying it
StateListRef_shared(c) == TemplateRef

\* the list a new State works on: arg_desc_list.copy(), a list of its own
StateListRef(c) == c

\* State.find_option_argument(name): the first remaining non-positional one
\* of whose flags is name, None without any
find_option_argument(list, name) ==
    LET hits == {i \in 1..Len(list) :
                    ~is_positional(list[i]) /\ name \in Range(list[i].flags)}
    IN  IF hits = {} THEN <<>>
        ELSE <<list[CHOOSE k \in hits : \A j \in hits : k <= j]>>

\* a remove_positional that drops the last positional
remove_positional_last(list) ==
    LET hits == {i \in 1..Len(list) : is_positional(list[i])}
    IN  IF hits = {} THEN list
        ELSE Remove(list, list[CHOOSE k \in hits : \A j \in hits : j <= k])

\* a remove_positional that drops nothing
remove_positional_none(list) == list

\* State.remove_positional(): the list without its first positional
remove_positional(list) ==
    LET hits == {i \in 1..Len(list) : is_positional(list[i])}
    IN  IF hits = {} THEN list
        ELSE Remove(list, list[CHOOSE k \in hits : \A j \in hits : k <= j])

\* CompletionContext(document, event, arg_descriptor, word)
CompletionContext(document, arg_descriptor, word) ==
    [document |-> document, arg_descriptor |-> arg_descriptor, word |-> word]

\* State.completion_for_positional(arg_descriptor, word); contexts are the
\* CompletionContext objects it builds
completion_for_positional(s, arg_descriptor, word) ==
    IF ~is_positional(arg_descriptor)
    THEN [kind |-> "argument", raised |-> "AssertionError", items |-> <<>>,
          contexts |-> <<>>]
    ELSE IF value_completer # "None"
         THEN LET context == CompletionContext(s.document, arg_descriptor, word)
              IN  [kind |-> "argument", raised |-> NoError,
                   items |-> GetSeries_get_completions(context),
                   contexts |-> <<context>>]
         ELSE [kind |-> "argument", raised |-> NoError,
               items |-> WordCompleter(choices(arg_descriptor), s.document),
               contexts |-> <<>>]

\* the contexts built for the positionals of list, in list order
RECURSIVE PositionalContexts(_, _)
PositionalContexts(s, list) ==
    IF list = <<>> THEN <<>>
    ELSE (IF is_positional(Head(list)) /\ value_completer # "None"
          THEN <<CompletionContext(s.document, Head(list), <<>>)>>
          ELSE <<>>)
         \o PositionalContexts(s, Tail(list))

\* the completions of the positionals of list, in list order
RECURSIVE PositionalCompletions(_, _)
PositionalCompletions(s, list) ==
    IF list = <<>> THEN <<>>
    ELSE (IF is_positional(Head(list))
          THEN completion_for_positional(s, Head(list), <<>>).items
          ELSE <<>>)
         \o PositionalCompletions(s, Tail(list))

\* the primary flags of the non-positionals of list, in list order
RECURSIVE completion_items(_)
completion_items(list) ==
    IF list = <<>> THEN <<>>
    ELSE (IF is_positional(Head(list)) THEN <<>> ELSE <<Head(list).flags[1]>>)
         \o completion_items(Tail(list))

\* a completion_for_argument_set that completes every descriptor in place
RECURSIVE InPlaceCompletions(_, _)
InPlaceCompletions(s, list) ==
    IF list = <<>> THEN <<>>
    ELSE (IF is_positional(Head(list))
          THEN completion_for_positional(s, Head(list), <<>>).items
          ELSE WordCompleter(<<Head(list).flags[1]>>, s.document))
         \o InPlaceCompletions(s, Tail(list))

completion_for_argument_set_in_place(s, list) ==
    [kind |-> "argument_set", raised |-> NoError,
     items |-> InPlaceCompletions(s, list),
     contexts |-> PositionalContexts(s, list)]

\* State.completion_for_argument_set(): the positionals' completions are
\* yielded inside the loop, the flags collected there are completed after it
completion_for_argument_set(s, list) ==
    [kind |-> "argument_set", raised |-> NoError,
     items |-> PositionalCompletions(s, list)
               \o WordCompleter(completion_items(list), s.document),
     contexts |-> PositionalContexts(s, list)]

\* State.completion_for_argument(word), s.arg_descriptor being set
completion_for_argument(s, list, word) ==
    IF is_flag(s.arg_descriptor[1])
    THEN completion_for_argument_set(s, list)
    ELSE completion_for_positional(s, s.arg_descriptor[1], <<>>)

\* a resolve_completion that never takes a word for an option's value
previous_word_is_option_never(s) == FALSE

\* previous_word_is_option = state.arg_descriptor is not None
previous_word_is_option(s) == s.arg_descriptor # <<>>

(***************************************************************************)
(* ArgumentCompleter.resolve_completion: one call of the recursive         *)
(* operation on State s whose descriptor list is list.  resolve_words is   *)
(* the word handling: the State and list the call leaves and the State     *)
(* operation it returns with ("" when it recurses, word being the argument *)
(* of completion_for_argument).  resolve_completion adds, in ret, the      *)
(* completion handed back: nothing yet when it recurses.                   *)
(***************************************************************************)
\* a pop that leaves the word in the queue
pop_peek(word_list) == word_list

\* the queue after state.word_list.pop(0)
pop(word_list) == Tail(word_list)

resolve_words(s, list) ==
    IF s.word_list = <<>>
    THEN [s |-> s, list |-> list, returns |-> "argument_set", word |-> <<>>]
    ELSE
    LET word == Head(s.word_list)
        popped == [s EXCEPT !.word_list = pop(s.word_list)]
        last_word == popped.word_list = <<>>
        matching_arg == find_option_argument(list, word)
    IN  IF last_word
        THEN IF s.trailing_space
             THEN IF matching_arg # <<>>
                  THEN [s |-> [popped EXCEPT !.arg_descriptor = matching_arg],
                        list |-> list, returns |-> "argument", word |-> <<>>]
                  ELSE [s |-> popped,
                        list |-> IF s.arg_descriptor = <<>>
                                 THEN remove_positional(list) ELSE list,
                        returns |-> "argument_set", word |-> <<>>]
             ELSE IF s.arg_descriptor # <<>>
                  THEN [s |-> popped, list |-> list,
                        returns |-> "argument", word |-> word]
                  ELSE [s |-> popped, list |-> list,
                        returns |-> "argument_set", word |-> <<>>]
        ELSE IF matching_arg # <<>>
             THEN [s |-> [popped EXCEPT !.arg_descriptor = matching_arg],
                   list |-> Remove(list, matching_arg[1]),
                   returns |-> "", word |-> <<>>]
             ELSE [s |-> [popped EXCEPT !.arg_descriptor = <<>>],
                   list |-> IF ~previous_word_is_option(s)
                            THEN remove_positional(list) ELSE list,
                   returns |-> "", word |-> <<>>]

resolve_completion(s, list) ==
    LET r == resolve_words(s, list)
    IN  [s |-> r.s, list |-> r.list,
         ret |-> IF r.returns = "argument_set"
                 THEN <<completion_for_argument_set(r.s, r.list)>>
                 ELSE IF r.returns = "argument"
                      THEN <<completion_for_argument(r.s, r.list, r.word)>>
                      ELSE <<>>]

(***************************************************************************)
(* The input lines: words of a vocabulary joined by single spaces, with or *)
(* without a trailing space, the cursor at the start (as the tests place   *)
(* it) or at the end (as the nested dispatch hands the text over).         *)
(***************************************************************************)
RECURSIVE JoinWords(_)
JoinWords(ws) ==
    IF ws = <<>> THEN <<>>
    ELSE IF Len(ws) = 1 THEN ws[1]
         ELSE ws[1] \o <<" ">> \o JoinWords(Tail(ws))

\* the flags of a descriptor list, a dash and a plain word
Vocabulary(list) ==
    UNION {Range(list[i].flags) : i \in {j \in 1..Len(list) : ~is_positional(list[j])}}
        \cup {s_dash, s_val}

WordSeqs(V) == UNION {[1..n -> V] : n \in 0..MaxWords}

Documents(list) ==
    {[text |-> text, cursor |-> cur] :
        <<text, cur>> \in
            UNION {{<<JoinWords(ws) \o trail, 0>>,
                    <<JoinWords(ws) \o trail, Len(JoinWords(ws) \o trail)>>} :
                   <<ws, trail>> \in WordSeqs(Vocabulary(list)) \X {<<>>, <<" ">>}}}

(***************************************************************************)
(* Actions                                                                 *)
(***************************************************************************)
\* ArgumentCompleter.get_completions up to the call of resolve_completion:
\* the line is split into words and a State is built on a copy of the list
StartCall(c, document, previous) ==
    LET text == LStrip(document.text)
        word_list == Split(text)
        ref == StateListRef(c)
    IN  /\ st' = [st EXCEPT ![c] =
                    [pc |-> "resolve",
                     document |-> document,
                     trailing_space |-> EndsWithSpace(document.text),
                     word_list |-> word_list,
                     arg_desc_list |-> ref,
                     arg_descriptor |-> <<>>,
                     kind |-> "",
                     items |-> <<>>,
                     raised |-> NoError,
                     contexts |-> <<>>,
                     positional_words |-> 0,
                     resolve_calls |-> 0]]
        /\ heap' = [heap EXCEPT ![ref] = heap[TemplateRef]]
        /\ prev' = previous
        /\ UNCHANGED <<side_vars, arg_desc_set, value_completer, metrics, labels, kv>>

\* the front end asks for the completions of a document
GetCompletions(c) ==
    /\ st[c].pc = "idle"
    /\ \E document \in Documents(heap[TemplateRef]) :
        StartCall(c, document, <<>>)

\* the front end asks again for the completions of the same document
GetCompletionsAgain(c) ==
    /\ st[c].pc = "done"
    /\ StartCall(c, st[c].document,
                 <<[items |-> st[c].items, raised |-> st[c].raised]>>)

\* the front end drops the finished call; its State is garbage
Release(c) ==
    /\ st[c].pc = "done"
    /\ st' = [st EXCEPT ![c] = Idle]
    /\ heap' = [heap EXCEPT ![c] = <<>>]
    /\ prev' = <<>>
    /\ UNCHANGED <<side_vars, arg_desc_set, value_completer, metrics, labels, kv>>

\* the word resolve_completion is about to consume is space-terminated,
\* matches no remaining flag and does not directly follow a matched flag
TakenAsPositional(c) ==
    /\ st[c].word_list # <<>>
    /\ Len(st[c].word_list) > 1 \/ st[c].trailing_space
    /\ find_option_argument(heap[st[c].arg_desc_list], Head(st[c].word_list)) = <<>>
    /\ st[c].arg_descriptor = <<>>

\* one call of resolve_completion; the completion it returns is drained by
\* the loop of get_completions, an exception ends the generator
ResolveCompletion(c) ==
    /\ st[c].pc = "resolve"
    /\ LET r == resolve_completion(st[c], heap[st[c].arg_desc_list])
           n == st[c].positional_words + (IF TakenAsPositional(c) THEN 1 ELSE 0)
           k == st[c].resolve_calls + 1
       IN  /\ heap' = [heap EXCEPT ![st[c].arg_desc_list] = r.list]
           /\ st' = [st EXCEPT ![c] =
                       IF r.ret = <<>>
                       THEN [r.s EXCEPT !.positional_words = n,
                                        !.resolve_calls = k]
                       ELSE [r.s EXCEPT
                               !.positional_words = n,
                               !.resolve_calls = k,
                               !.kind = r.ret[1].kind,
                               !.items = r.ret[1].items,
                               !.raised = r.ret[1].raised,
                               !.contexts = r.ret[1].contexts,
                               !.pc = IF r.ret[1].raised = NoError
                                      THEN "yield_empty" ELSE "done"]]
    /\ UNCHANGED <<side_vars, arg_desc_set, value_completer, metrics, labels, prev, kv>>

\* get_completions ending without the empty completion
YieldEmpty_dropped(c) ==
    /\ st[c].pc = "yield_empty"
    /\ st' = [st EXCEPT ![c].pc = "done"]
    /\ UNCHANGED <<side_vars, arg_desc_set, value_completer, metrics, labels, heap, prev, kv>>

\* the last statement of get_completions: yield Completion('')
YieldEmpty(c) ==
    /\ st[c].pc = "yield_empty"
    /\ st' = [st EXCEPT ![c].items = Append(@, <<>>), ![c].pc = "done"]
    /\ UNCHANGED <<side_vars, arg_desc_set, value_completer, metrics, labels, heap, prev, kv>>

\* no constructor call under way
NoCompleter == [pc |-> "none", arg_desc_set |-> [type |-> "NoneType", value |-> <<>>],
                arg_desc_list |-> <<>>, raised |-> NoError]

\* the attributes that hold a list of names: HandlerContext.metrics and
\* .labels, and the value of the descriptors update_metrics and
\* update_labels write
ContextSlots == <<"context.metrics", "context.labels">>
MetricSlots == <<"Query.<exp>.value", "Series.<metric>.value">>
LabelSlots == <<"Labels.<label>.value", "Series.-l.value">>
Slots == Range(ContextSlots) \cup Range(MetricSlots) \cup Range(LabelSlots)

\* the n-th slot, in a fixed order
SlotAt(n) == (ContextSlots \o MetricSlots \o LabelSlots)[n]

NoRefresh == [pc |-> "idle", op |-> "", ref |-> 0, count |-> 0]
NoReader == [pc |-> "idle", slot |-> "", ref |-> 0, yielded |-> <<>>, live |-> {}]

\* every slot starts with an empty list of its own
RefreshInit ==
    /\ objects = [i \in 1..Cardinality(Slots) |-> <<>>]
    /\ slots = [sl \in Slots |-> CHOOSE i \in 1..Cardinality(Slots) : SlotAt(i) = sl]
    /\ refresh = NoRefresh
    /\ reader = NoReader

\* the command names of the shell
Names == {"help", "exit", "series"}

\* NestedCompleter.from_nested_dict(data): a new NestedCompleter whose
\* options are built from the items of data
from_nested_dict(data, id) == [id |-> id, options |-> data]

\* ShellCompleter.__init__: no name has a completer
ShellInit ==
    /\ description = [name \in Names |-> <<>>]
    /\ nested = from_nested_dict([name \in Names |-> <<>>], 0)
    /\ set_calls = <<>>

\* 'localhost:9090', and the port of a connection made without one
SERVER_ADDRESS_DEFAULT ==
    <<"l", "o", "c", "a", "l", "h", "o", "s", "t", ":", "9", "0", "9", "0">>
HTTP_PORT == <<"8", "0">>

\* http.client.HTTPConnection(server_address): host and port
HTTPConnection(server_address) ==
    LET parts == SplitOn(server_address, ":")
    IN  [host |-> parts[1],
         port |-> IF Len(parts) > 1 THEN parts[2] ELSE HTTP_PORT]

\* HandlerFactory.__init__(server_address): one connection, held by the
\* factory and by the HandlerContext of the handlers
NetInit ==
    [connections |-> <<HTTPConnection(SERVER_ADDRESS_DEFAULT)>>,
     http_connection |-> 1,
     http_conn |-> 1,
     address |-> <<>>,
     result |-> <<>>,
     connects |-> 0,
     requests |-> <<>>]

\* no handler has been asked for completions
NoHandlerCall == [called |-> FALSE, handler |-> "", context |-> <<>>,
                  raised |-> NoError, items |-> <<>>]

\* run() has not been called
NoRun == [pc |-> "idle", text |-> <<>>, arguments |-> <<>>, lines |-> 0, log |-> <<>>]

\* Shell.__init__ before register_builtin_handlers: the maps are empty
RegistryInit ==
    /\ handler_map = [name \in Names |-> <<>>]
    /\ subparser_map = [name \in Names |-> <<>>]
    /\ register = [calls |-> 0, raised |-> NoError]
    /\ run = NoRun
    /\ net = NetInit
    /\ handler_call = NoHandlerCall

SideInit ==
    /\ completer = NoCompleter
    /\ RefreshInit
    /\ ShellInit
    /\ RegistryInit

Configs ==
    {<<"None", <<>>, <<>>>>}
        \cup {<<"GetSeries", m, <<s_job, s_instance>>>> : m \in {<<>>, <<s_up>>}}

\* the completer after ArgumentCompleter.__init__, no call made yet
Init ==
    /\ arg_desc_set \in ArgSpecs
    /\ \E cfg \in Configs :
        /\ value_completer = cfg[1]
        /\ metrics = cfg[2]
        /\ labels = cfg[3]
    /\ heap = [r \in {TemplateRef} \cup Calls |->
                 IF r = TemplateRef THEN BuildDescList(arg_desc_set) ELSE <<>>]
    /\ st = [c \in Calls |-> Idle]
    /\ prev = <<>>
    /\ kv = NoKv
    /\ SideInit

Next ==
    \E c \in Calls :
        \/ GetCompletions(c)
        \/ GetCompletionsAgain(c)
        \/ Release(c)
        \/ ResolveCompletion(c)
        \/ YieldEmpty(c)

Spec == Init /\ [][Next]_vars

(***************************************************************************)
(* KeyValueCompleter called on its own: the fragments are comma separated  *)
(* segments key op value built from the parts below, the document holds    *)
(* the fragment with the cursor at its start or at its end.                *)
(***************************************************************************)
KeySets == {<<s_job, s_instance>>, <<>>}
OperatorSets == {OPERATORS, <<s_eq>>}
KeyParts == {<<>>, s_job, s_inst}
OpParts == {<<>>} \cup Range(OPERATORS)
ValueParts == {<<>>, s_prometheus}

Segments ==
    {k \o o \o v : <<k, o, v>> \in
        {t \in KeyParts \X OpParts \X ValueParts :
            /\ t[1] = <<>> => t[2] = <<>>
            /\ t[2] = <<>> => t[3] = <<>>}}

RECURSIVE JoinSegments(_)
JoinSegments(segs) ==
    IF Len(segs) = 1 THEN segs[1]
    ELSE segs[1] \o <<",">> \o JoinSegments(Tail(segs))

Fragments == {JoinSegments(segs) : segs \in UNION {[1..n -> Segments] : n \in 1..MaxSegs}}

\* KeyValueCompleter(key_names, operators).get_completions(context)
KVGetCompletions ==
    /\ ~kv.called
    /\ \E key_names \in KeySets, operators \in OperatorSets, word \in Fragments :
      \E cursor \in {0, Len(word)} :
        LET document == [text |-> word, cursor |-> cursor]
            key_value_items == SplitOn(word, ",")
        IN  /\ kv' = [called |-> TRUE,
                      key_names |-> key_names,
                      self_key_names |-> key_names_after(key_names,
                          UsedKeys(key_names, key_value_items, operators)),
                      operators |-> operators,
                      word |-> word,
                      document |-> document,
                      expression |-> SplitKeyValue(
                          key_value_items[Len(key_value_items)], operators),
                      items |-> KeyValueCompleter(key_names, operators,
                                   [word |-> word, document |-> document])]
            /\ UNCHANGED <<side_vars, arg_desc_set, value_completer, metrics, labels, heap,
                           st, prev>>

InitKV ==
    /\ arg_desc_set = SERIES_ARG_SPEC
    /\ value_completer = "GetSeries"
    /\ metrics = <<>>
    /\ labels = <<s_job, s_instance>>
    /\ heap = [r \in {TemplateRef} \cup Calls |->
                 IF r = TemplateRef THEN BuildDescList(arg_desc_set) ELSE <<>>]
    /\ st = [c \in Calls |-> Idle]
    /\ prev = <<>>
    /\ kv = NoKv
    /\ SideInit

\* the caller drops the completions it was given
KVRelease ==
    /\ kv.called
    /\ kv' = NoKv
    /\ UNCHANGED <<side_vars, arg_desc_set, value_completer, metrics, labels, heap, st, prev>>

NextKV == KVGetCompletions \/ KVRelease

SpecKV == InitKV /\ [][NextKV]_vars

(***************************************************************************)
(* Properties                                                              *)
(***************************************************************************)
\* the words of the line call c completes
Words(c) == Split(LStrip(st[c].document.text))

\* the descriptors call c has left
Remaining(c) == heap[st[c].arg_desc_list]

\* C1: when the final word of the line is followed by a space and matches a
\* flag of a value-taking option still remaining, the completions are that
\* option's value candidates in configured order followed by one ''
C1_ValueCandidates ==
    \A c \in Calls :
        LET ws == Words(c)
            m == find_option_argument(Remaining(c), ws[Len(ws)])
        IN  (/\ st[c].pc = "done"
             /\ value_completer = "None"
             /\ ws # <<>>
             /\ st[c].trailing_space
             /\ m # <<>>
             /\ ~is_flag(m[1]))
            => /\ st[c].raised = NoError
               /\ st[c].items = choices(m[1]) \o <<Sentinel>>

\* C4: a call that resolves to the full-argument-set completion returns
\* exactly one empty completion, and returns it last
C4_TrailingSentinel ==
    \A c \in Calls :
        (st[c].pc = "done" /\ st[c].raised = NoError /\ st[c].kind = "argument_set")
        => /\ st[c].items # <<>>
           /\ st[c].items[Len(st[c].items)] = Sentinel
           /\ \A i \in 1..(Len(st[c].items) - 1) : st[c].items[i] # Sentinel

C4_Witness ==
    \E c \in Calls :
        /\ st[c].pc = "done"
        /\ st[c].kind = "argument_set"
        /\ Len(st[c].items) >= 3

\* C5: completing the same document again gives the same completions, and
\* the completer's own descriptor list stays the list it was constructed
\* with: the removals happen on the list of the call
C5_TemplateIdempotence ==
    /\ heap[TemplateRef] = BuildDescList(arg_desc_set)
    /\ \A c \in Calls :
        (st[c].pc = "done" /\ prev # <<>>)
        => prev[1] = [items |-> st[c].items, raised |-> st[c].raised]

C5_Witness ==
    \E c \in Calls :
        /\ st[c].pc = "done"
        /\ prev # <<>>
        /\ st[c].raised = NoError
        /\ Len(Remaining(c)) < Len(heap[TemplateRef])

\* C8: no completion call raises
C8_NeverRaises == \A c \in Calls : st[c].raised = NoError

\* C2: a flag of an option or switch typed as a word before the final one
\* removes that descriptor from the remaining list, and none of its flags is
\* among the completions of the line
C2_SingleOccurrence ==
    \A c \in Calls :
        st[c].pc = "done"
        => LET ws == Words(c)
               template == heap[TemplateRef]
           IN  \A i \in 1..(Len(ws) - 1) : \A k \in 1..Len(template) :
                 (~is_positional(template[k]) /\ ws[i] \in Range(template[k].flags))
                 => /\ template[k] \notin Range(Remaining(c))
                    /\ \A f \in Range(template[k].flags) : f \notin Range(st[c].items)

\* the positionals of a descriptor list, in list order
Positionals(list) == SelectSeq(list, is_positional)

NonPositional(desc) == ~is_positional(desc)

\* the options and switches of a descriptor list, in list order
Options(list) == SelectSeq(list, NonPositional)

\* what the value strategy yields for a positional when nothing is typed
\* before the cursor
Candidates(c, desc) ==
    completion_for_positional(
        [st[c] EXCEPT !.document = [text |-> <<>>, cursor |-> 0]], desc, <<>>).items

UnmatchedDash(c) ==
    /\ st[c].pc = "resolve"
    /\ st[c].word_list # <<>>
    /\ StartsWith(Head(st[c].word_list), s_dash)
    /\ find_option_argument(Remaining(c), Head(st[c].word_list)) = <<>>

Block(c, desc) ==
    IF is_positional(desc)
    THEN completion_for_positional(st[c], desc, <<>>).items
    ELSE WordCompleter(<<desc.flags[1]>>, st[c].document)

RECURSIVE Blocks(_, _)
Blocks(c, list) ==
    IF list = <<>> THEN <<>> ELSE Block(c, Head(list)) \o Blocks(c, Tail(list))

FullArgumentSet(c) ==
    st[c].pc = "done" /\ st[c].raised = NoError /\ st[c].kind = "argument_set"

\* C10: the full-argument-set completion lists one block per remaining
\* descriptor in descriptor-list order, positionals in place, then ''
C10_InListOrder ==
    \A c \in Calls :
        FullArgumentSet(c)
        => st[c].items = Blocks(c, Remaining(c)) \o <<Sentinel>>

\* C10 as amended: the blocks of the remaining positionals come first, in
\* descriptor-list order, then the primary flags of the remaining options
\* and switches, in descriptor-list order, then ''
C10_PositionalsFirst ==
    \A c \in Calls :
        FullArgumentSet(c)
        => st[c].items = Blocks(c, Positionals(Remaining(c)))
                            \o Blocks(c, Options(Remaining(c)))
                            \o <<Sentinel>>

C10_Witness ==
    \E c \in Calls :
        /\ FullArgumentSet(c)
        /\ \E i, j \in 1..Len(Remaining(c)) :
            /\ i < j
            /\ ~is_positional(Remaining(c)[i])
            /\ is_positional(Remaining(c)[j])
            /\ Block(c, Remaining(c)[i]) # <<>>
            /\ Block(c, Remaining(c)[j]) # <<>>

\* the segments of the fragment of the last KeyValueCompleter call
KvSegments == SplitOn(kv.word, ",")

\* C6: a key used in an earlier segment key op value, for any configured
\* operator, is not among the completions for the last segment
C6_KeyNoRepeat ==
    kv.called
    => \A i \in 1..(Len(KvSegments) - 1) :
         \A k \in 1..Len(kv.key_names), j \in 1..Len(kv.operators) :
           StartsWith(KvSegments[i], kv.key_names[k] \o kv.operators[j])
           => kv.key_names[k] \notin Range(kv.items)

\* C7: a last segment k op v, for any configured operator op, is split into
\* the key k and the value v
C7_OperatorSplit ==
    kv.called
    => \A k \in KeyParts \ {<<>>}, v \in ValueParts :
         \A j \in 1..Len(kv.operators) :
           KvSegments[Len(KvSegments)] = k \o kv.operators[j] \o v
           => kv.expression[1] = k /\ kv.expression[3] = v

\* the word call c is about to consume is the final word of the line, is
\* still in progress and no descriptor is active
InProgressNoActive(c) ==
    /\ st[c].pc = "resolve"
    /\ Len(st[c].word_list) = 1
    /\ ~st[c].trailing_space
    /\ st[c].arg_descriptor = <<>>

\* the full-argument-set completion of call c over its remaining descriptors
\* with nothing typed before the cursor
UnfilteredArgumentSet(c) ==
    completion_for_argument_set(
        [st[c] EXCEPT !.document = [text |-> <<>>, cursor |-> 0]],
        Remaining(c)).items

\* C11: an in-progress final word with no active descriptor is ignored: it
\* removes no descriptor and the call returns the full-argument-set
\* completion over the remaining descriptors, unfiltered, then ''
C11_InProgressIgnored ==
    [][\A c \in Calls :
         InProgressNoActive(c)
         => /\ heap'[st'[c].arg_desc_list] = heap[st[c].arg_desc_list]
            /\ st'[c].kind = "argument_set"
            /\ st'[c].items = UnfilteredArgumentSet(c)
            /\ st'[c].pc = "yield_empty"]_vars

\* call c has ended on an in-progress final word that directly follows a
\* matched flag of a value-taking option
InProgressValue(c) ==
    /\ st[c].pc = "done"
    /\ Words(c) # <<>>
    /\ ~st[c].trailing_space
    /\ st[c].arg_descriptor # <<>>
    /\ ~is_flag(st[c].arg_descriptor[1])

\* C12: when the final word is in progress and the word before it matched a
\* value-taking option, the completions are that option's value candidates
\* followed by '', whatever the in-progress word is
C12_InProgressValue ==
    \A c \in Calls :
        (InProgressValue(c) /\ value_completer = "None")
        => /\ st[c].raised = NoError
           /\ st[c].items = choices(st[c].arg_descriptor[1]) \o <<Sentinel>>

\* call c has ended delegating to the value completer for its active,
\* value-taking descriptor
DelegatedForActive(c) ==
    /\ st[c].pc = "done"
    /\ value_completer # "None"
    /\ st[c].kind = "argument"
    /\ st[c].arg_descriptor # <<>>
    /\ ~is_flag(st[c].arg_descriptor[1])

\* C13: the CompletionContext built for the active descriptor carries that
\* descriptor and, as its word, the in-progress final word, or '' when the
\* flag itself was the space-terminated final word
C13_TrailingFragment ==
    \A c \in Calls :
        DelegatedForActive(c)
        => st[c].contexts =
              << CompletionContext(
                     st[c].document,
                     st[c].arg_descriptor[1],
                     IF st[c].trailing_space THEN <<>>
                     ELSE Words(c)[Len(Words(c))]) >>

\* the word call c is about to consume is space-terminated, matches no
\* remaining flag and directly follows a matched flag of a value-taking
\* option
ValueWord(c) ==
    /\ st[c].pc = "resolve"
    /\ st[c].word_list # <<>>
    /\ Len(st[c].word_list) > 1 \/ st[c].trailing_space
    /\ st[c].arg_descriptor # <<>>
    /\ ~is_flag(st[c].arg_descriptor[1])
    /\ find_option_argument(Remaining(c), Head(st[c].word_list)) = <<>>

\* call c has ended on a line FLAG v w followed by a space, FLAG a flag of a
\* value-taking option of the template, v and w no flags
FlagValueWord(c) ==
    /\ st[c].pc = "done"
    /\ st[c].trailing_space
    /\ Len(Words(c)) = 3
    /\ LET m == find_option_argument(heap[TemplateRef], Words(c)[1])
       IN  m # <<>> /\ ~is_flag(m[1])
    /\ \A i \in 2..3 : find_option_argument(heap[TemplateRef], Words(c)[i]) = <<>>

ScenarioE == s_job \o s_eq \o s_prometheus \o s_comma \o s_inst

\* the KeyValueCompleter call of scenario E has been made
ScenarioECalled ==
    /\ kv.called
    /\ kv.key_names = <<s_job, s_instance>>
    /\ kv.operators = OPERATORS
    /\ kv.word = ScenarioE

\* C15: with keys job, instance and the operators =, =~, !=, !~ the
\* fragment 'job=prometheus,inst' yields exactly the key 'instance'
C15_ScenarioEKey == ScenarioECalled => kv.items = <<s_instance>>

\* C15 as amended: that fragment yields exactly the four operators, in
\* configured order, and no key
C15_ScenarioEOperators == ScenarioECalled => kv.items = OPERATORS

C15_Witness == ScenarioECalled /\ kv.document.cursor = 0

\* the last segment of the fragment, the one under completion
KvLastSegment == KvSegments[Len(KvSegments)]

\* seg contains one of the configured operators
HoldsOperator(seg) ==
    \E j \in 1..Len(kv.operators) : FindFirst(seg, kv.operators[j]) # 0

\* the last segment is non-empty and holds no configured operator
PartialKey == kv.called /\ KvLastSegment # <<>> /\ ~HoldsOperator(KvLastSegment)

\* C16: a non-empty last segment with no configured operator is completed
\* by exactly the configured operators, in configured order
C16_OperatorsOnly == PartialKey => kv.items = kv.operators

\* C16 as amended: the completions are the configured operators in
\* configured order and no key, with one '' in front of them when the key
\* set is empty
C16_OperatorsAfterPartialKey ==
    PartialKey
    => kv.items = (IF kv.key_names = <<>> THEN <<Sentinel>> ELSE <<>>)
                     \o kv.operators

C16_Witness ==
    /\ PartialKey
    /\ KvSegments = <<s_job>>
    /\ kv.key_names = <<>>
    /\ kv.items = <<Sentinel>> \o OPERATORS

\* C17: a last segment made of a key of the key set immediately followed
\* by a configured operator is completed by the placeholder '<value>[,]'
\* and nothing else
C17_PlaceholderAfterOperator ==
    kv.called
    => \A k \in 1..Len(kv.key_names), j \in 1..Len(kv.operators) :
         KvLastSegment = kv.key_names[k] \o kv.operators[j]
         => kv.items = <<s_value_placeholder>>

\* the last segment is a key part, a configured operator and a non-empty
\* value
ValueTyped ==
    /\ kv.called
    /\ \E k \in KeyParts, v \in ValueParts \ {<<>>} :
         \E j \in 1..Len(kv.operators) :
           KvLastSegment = k \o kv.operators[j] \o v

\* C18: a last segment with a configured operator followed by a non-empty
\* value is completed by the single completion ','
C18_CommaOnly == ValueTyped => kv.items = <<s_comma>>

\* C18 as amended: the completions are ',' and no key, operator or
\* placeholder, with one '' in front when the key set is empty
C18_CommaAfterValue ==
    ValueTyped
    => kv.items = (IF kv.key_names = <<>> THEN <<Sentinel>> ELSE <<>>)
                     \o <<s_comma>>

C18_Witness ==
    /\ ValueTyped
    /\ KvLastSegment = s_job \o s_ne \o s_prometheus
    /\ Len(KvSegments) = 2
    /\ kv.operators = OPERATORS
    /\ kv.items = <<s_comma>>

\* C19: earlier segments that hold no configured operator consume no key:
\* when no earlier segment holds an operator and the last segment is empty,
\* every key of the key set is suggested (the document filtering nothing)
C19_BareSegmentKeepsKey ==
    (/\ kv.called
     /\ Len(KvSegments) > 1
     /\ \A i \in 1..(Len(KvSegments) - 1) : ~HoldsOperator(KvSegments[i])
     /\ KvLastSegment = <<>>
     /\ kv.document.cursor = 0)
    => \A k \in 1..Len(kv.key_names) : kv.key_names[k] \in Range(kv.items)

\* no earlier segment of the fragment is key, a configured operator and a
\* value
NotConsumed(key) ==
    \A i \in 1..(Len(KvSegments) - 1), j \in 1..Len(kv.operators) :
        ~StartsWith(KvSegments[i], key \o kv.operators[j])

\* C20: an empty last segment is completed by exactly the keys of the
\* (non-empty) key set not consumed by earlier segments, in key-set order
C20_RemainingKeys ==
    (kv.called /\ kv.key_names # <<>> /\ KvLastSegment = <<>>)
    => kv.items = SelectSeq(kv.key_names, NotConsumed)

\* what the shape of the last segment produces, keys aside: the operators
\* after a partial key, ',' or the placeholder after an operator
ShapeCompletions ==
    IF PartialKey THEN kv.operators
    ELSE IF kv.expression[2] # <<>>
         THEN IF kv.expression[3] # <<>>
              THEN <<s_comma>> ELSE <<s_value_placeholder>>
         ELSE <<>>

\* C21: with an empty key set the completions are one '' followed by what
\* the shape of the fragment produces; with a non-empty key set no '' is
\* among the completions
C21_EmptyKeySet ==
    kv.called
    => IF kv.key_names = <<>>
       THEN kv.items = <<Sentinel>> \o ShapeCompletions
       ELSE Sentinel \notin Range(kv.items)

C21_Witness ==
    /\ kv.called
    /\ kv.key_names = <<>>
    /\ kv.word = s_job \o s_eq
    /\ kv.items = <<Sentinel, s_value_placeholder>>

(***************************************************************************)
(* ArgumentCompleter.__init__ on an arbitrary object.  An object is its    *)
(* type and its value; isinstance reads the type.                          *)
(***************************************************************************)
MaxKeys == 2

\* a positional configured with choices=[]
NO_CHOICES_ITEM == [key |-> s_pos1, kwargs |-> [NoKw EXCEPT !.choices = << <<>> >>]]

\* the items a descriptor dict is made of
DictItems == UNION {Range(spec) : spec \in ArgSpecs} \cup {NO_CHOICES_ITEM}

\* the dicts of at most MaxKeys items, in key order
Dicts ==
    {d \in UNION {[1..n -> DictItems] : n \in 0..MaxKeys} :
        \A i, j \in 1..Len(d) : d[i].key = d[j].key => i = j}

\* the lists of at most MaxKeys descriptors
Lists ==
    UNION {[1..n -> {ArgDescriptor(e.key, e.kwargs) : e \in DictItems}] :
              n \in 0..MaxKeys}

Objects ==
    {[type |-> "dict", value |-> d] : d \in Dicts}
        \cup {[type |-> "list", value |-> l] : l \in Lists}
        \cup {[type |-> "tuple", value |-> BuildDescList(TEST_ARG_SPEC)],
              [type |-> "str", value |-> s_pos1],
              [type |-> "NoneType", value |-> <<>>]}

isinstance(obj, type) == obj.type = type

\* __init__ that takes whatever is not a dict as the list
ArgumentCompleter_init_unchecked(obj) ==
    [raised |-> NoError,
     arg_desc_list |-> IF isinstance(obj, "dict") THEN BuildDescList(obj.value)
                       ELSE obj.value]

\* ArgumentCompleter.__init__(arg_desc_set)
ArgumentCompleter_init(obj) ==
    IF isinstance(obj, "dict")
    THEN [raised |-> NoError, arg_desc_list |-> BuildDescList(obj.value)]
    ELSE IF ~isinstance(obj, "list")
         THEN [raised |-> "ValueError", arg_desc_list |-> obj.value]
         ELSE [raised |-> NoError, arg_desc_list |-> obj.value]

\* ArgumentCompleter(arg_desc_set) is evaluated
Construct ==
    /\ completer.pc = "new"
    /\ LET r == ArgumentCompleter_init(completer.arg_desc_set)
       IN  completer' = [completer EXCEPT
                           !.pc = IF r.raised = NoError THEN "constructed"
                                  ELSE "raised",
                           !.arg_desc_list = r.arg_desc_list,
                           !.raised = r.raised]
    /\ UNCHANGED <<arg_desc_set, value_completer, metrics, labels, heap, st,
                   prev, kv, refresh_vars, shell_vars, registry_vars>>

InitCtor ==
    /\ arg_desc_set = TEST_ARG_SPEC
    /\ value_completer = "None"
    /\ metrics = <<>>
    /\ labels = <<>>
    /\ heap = [r \in {TemplateRef} \cup Calls |-> <<>>]
    /\ st = [c \in Calls |-> Idle]
    /\ prev = <<>>
    /\ kv = NoKv
    /\ \E obj \in Objects :
        completer = [NoCompleter EXCEPT !.pc = "new", !.arg_desc_set = obj]
    /\ RefreshInit
    /\ ShellInit
    /\ RegistryInit

NextCtor == Construct

SpecCtor == InitCtor /\ [][NextCtor]_vars

\* C22: the constructor raises ValueError exactly when the object is neither
\* a list nor a dict; from a dict it builds one ArgDescriptor per key, in key
\* order and named after the key; a list it keeps as given
C22_Constructor ==
    LET obj == completer.arg_desc_set
        list == completer.arg_desc_list
    IN  completer.pc \in {"constructed", "raised"}
        => /\ completer.pc = "raised" <=> obj.type \notin {"list", "dict"}
           /\ completer.pc = "raised" => completer.raised = "ValueError"
           /\ obj.type = "dict"
              => /\ Len(list) = Len(obj.value)
                 /\ \A i \in 1..Len(list) :
                      /\ list[i].name = obj.value[i].key
                      /\ list[i] = ArgDescriptor(obj.value[i].key,
                                                 obj.value[i].kwargs)
           /\ obj.type = "list" => list = obj.value

C22_Witness ==
    /\ completer.pc = "raised"
    /\ completer.arg_desc_set.type = "tuple"
    /\ completer.raised = "ValueError"

\* the value candidates of the positionals of a list, in list order
RECURSIVE AllCandidates(_, _)
AllCandidates(c, list) ==
    IF list = <<>> THEN <<>>
    ELSE Candidates(c, Head(list)) \o AllCandidates(c, Tail(list))

\* the primary flags of the options and switches of a list, in list order
PrimaryFlags(list) == [i \in 1..Len(Options(list)) |-> Options(list)[i].flags[1]]

\* C23: for an empty or whitespace-only line the call raises nothing and
\* returns the value candidates of every positional of the template and the
\* primary flag of every option and switch of the template, then ''
C23_BaseCase ==
    \A c \in Calls :
        (st[c].pc = "done" /\ Words(c) = <<>>)
        => /\ st[c].raised = NoError
           /\ st[c].kind = "argument_set"
           /\ st[c].items =
                AllCandidates(c, Positionals(heap[TemplateRef]))
                    \o PrimaryFlags(heap[TemplateRef])
                    \o <<Sentinel>>

C23_Witness ==
    \E c \in Calls :
        /\ st[c].pc = "done"
        /\ st[c].document.text = <<" ">>
        /\ arg_desc_set = MIXED_ARG_SPEC
        /\ Len(st[c].items) = 5

(***************************************************************************)
(* Progress.  A call that was started runs on: resolve_completion calls    *)
(* itself until it returns, and the loop of get_completions that drains it *)
(* is followed by the final yield; nothing in either waits for anything.   *)
(***************************************************************************)
InitLive ==
    /\ Init
    /\ arg_desc_set \in {TEST_ARG_SPEC, TWIN_ARG_SPEC}
    /\ value_completer = "None"

SpecLive ==
    /\ InitLive
    /\ [][Next]_vars
    /\ \A c \in Calls : WF_vars(ResolveCompletion(c)) /\ WF_vars(YieldEmpty(c))

\* the number of words of the line, or 1 for a line without words
CallsNeeded(c) == IF Words(c) = <<>> THEN 1 ELSE Len(Words(c))

\* C24 as stated: every call of resolve_completion removes exactly one word
C24_OneWordPerCall ==
    [][\A c \in Calls :
          (st[c].pc = "resolve" /\ st'[c] # st[c])
          => Len(st'[c].word_list) = Len(st[c].word_list) - 1]_vars

\* C24 as amended: a call of resolve_completion on a non-empty word queue
\* removes exactly its first word, the call on an empty queue removes nothing
\* and returns; every started call ends, the line of n words after n calls
\* of resolve_completion (one call when n = 0), so that at most n of them
\* are recursive
C24_Termination ==
    /\ [][\A c \in Calls :
            (st[c].pc = "resolve" /\ st'[c] # st[c])
            => /\ st'[c].resolve_calls = st[c].resolve_calls + 1
               /\ IF st[c].word_list # <<>>
                  THEN st'[c].word_list = Tail(st[c].word_list)
                  ELSE st'[c].word_list = <<>> /\ st'[c].pc # "resolve"]_vars
    /\ [](\A c \in Calls :
            /\ st[c].pc = "resolve"
               => st[c].resolve_calls = Len(Words(c)) - Len(st[c].word_list)
            /\ st[c].pc \in {"yield_empty", "done"}
               => /\ st[c].resolve_calls = CallsNeeded(c)
                  /\ st[c].resolve_calls - 1 <= Len(Words(c)))
    /\ \A c \in Calls : (st[c].pc = "resolve") ~> (st[c].pc = "done")

C24_Witness ==
    \E c \in Calls :
        /\ st[c].pc = "done"
        /\ Len(Words(c)) = MaxWords
        /\ st[c].resolve_calls = MaxWords

(***************************************************************************)
(* Two completion calls on one ArgumentCompleter.  The prompt completes in *)
(* a thread (complete_in_thread), so that a call for a newer line can      *)
(* start before the call for an older one has ended; the steps of the two  *)
(* interleave in any order.                                                *)
(***************************************************************************)
Threads == {1, 2}
MaxThreadWords == 2

\* a plain word and the primary flag of every option and switch
ThreadVocabulary(list) == {s_val} \cup Range(PrimaryFlags(list))

ThreadDocuments(list) ==
    {[text |-> JoinWords(ws) \o trail, cursor |-> 0] :
        <<ws, trail>> \in
            (UNION {[1..n -> ThreadVocabulary(list)] : n \in 0..MaxThreadWords})
                \X {<<>>, <<" ">>}}

\* a thread asks for the completions of a document
ThreadGetCompletions(c) ==
    /\ st[c].pc = "idle"
    /\ \E document \in ThreadDocuments(BuildDescList(arg_desc_set)) :
        StartCall(c, document, <<>>)

InitThreads ==
    /\ arg_desc_set = MIXED_ARG_SPEC
    /\ value_completer = "None"
    /\ metrics = <<>>
    /\ labels = <<>>
    /\ heap = [r \in {TemplateRef} \cup Threads |->
                 IF r = TemplateRef THEN BuildDescList(arg_desc_set) ELSE <<>>]
    /\ st = [c \in Threads |-> Idle]
    /\ prev = <<>>
    /\ kv = NoKv
    /\ SideInit

NextThreads ==
    \E c \in Threads :
        \/ ThreadGetCompletions(c)
        \/ ResolveCompletion(c)
        \/ YieldEmpty(c)
        \/ Release(c)

SpecThreads == InitThreads /\ [][NextThreads]_vars

\* resolve_completion run to its return, nothing else running
RECURSIVE resolve_alone(_, _)
resolve_alone(s, list) ==
    LET r == resolve_completion(s, list)
    IN  IF r.ret = <<>> THEN resolve_alone(r.s, r.list) ELSE r.ret[1]

\* what get_completions(document) yields and raises when the call is the
\* only one running
get_completions_alone(document) ==
    LET r == resolve_alone(
                [Idle EXCEPT !.document = document,
                             !.trailing_space = EndsWithSpace(document.text),
                             !.word_list = Split(LStrip(document.text))],
                BuildDescList(arg_desc_set))
    IN  [items |-> IF r.raised = NoError THEN Append(r.items, Sentinel)
                   ELSE r.items,
         raised |-> r.raised]

\* C25: each of two calls whose steps interleave ends with the completions
\* and the exception it ends with when run alone, and the template list is
\* never changed
C25_Independent ==
    /\ heap[TemplateRef] = BuildDescList(arg_desc_set)
    /\ \A c \in Threads :
        st[c].pc = "done"
        => [items |-> st[c].items, raised |-> st[c].raised]
             = get_completions_alone(st[c].document)

C25_Witness ==
    /\ st[1].pc = "done"
    /\ st[1].resolve_calls = MaxThreadWords
    /\ Len(heap[1]) < Len(heap[TemplateRef])
    /\ st[2].pc = "resolve"
    /\ st[2].resolve_calls = 1
    /\ Len(heap[2]) < Len(heap[TemplateRef])
    /\ heap[1] # heap[2]

(***************************************************************************)
(* Refresh of the live name lists.  HandlerFactory.fetch assigns to        *)
(* context.metrics the list decoded from one response and to               *)
(* context.labels the list decoded from the next; update_metrics and       *)
(* update_labels assign the list they are given to the value of two        *)
(* descriptors.  A completion reads the list of a slot once and iterates   *)
(* over it element by element (WordCompleter's loop) while the refresh     *)
(* goes on.                                                                *)
(***************************************************************************)
MaxRefreshes == 2

\* the lists of names a response or a caller can hold
NameLists == {<<>>, <<s_up, s_job>>, <<s_job, s_instance>>}

\* the two slots a refresh assigns, in order, and whether both get the same
\* list (the argument) or each a list of its own (result['data'])
Refreshes ==
    [fetch          |-> [slots |-> ContextSlots, same_list |-> FALSE],
     update_metrics |-> [slots |-> MetricSlots, same_list |-> TRUE],
     update_labels  |-> [slots |-> LabelSlots, same_list |-> TRUE]]

\* an assignment that overwrites the contents of the list the slot holds
assign_in_place(objs, sls, slot, ref) ==
    [objects |-> [objs EXCEPT ![sls[slot]] = objs[ref]], slots |-> sls]

\* slot = list: the slot holds the reference of the list from now on
assign(objs, sls, slot, ref) ==
    [objects |-> objs, slots |-> [sls EXCEPT ![slot] = ref]]

\* the lists the slot of the reader has held since the reader read it
Live(sls, objs) ==
    IF reader.pc = "idle" THEN {} ELSE reader.live \cup {objs[sls[reader.slot]]}

\* the first assignment of a refresh: a list just created (decoded from the
\* response, or built by the caller) is assigned to the first slot
RefreshFirst(op) ==
    /\ refresh.pc = "idle"
    /\ refresh.count < MaxRefreshes
    /\ \E data \in NameLists :
        LET ref == Len(objects) + 1
            m == assign(Append(objects, data), slots, Refreshes[op].slots[1], ref)
        IN  /\ objects' = m.objects
            /\ slots' = m.slots
            /\ refresh' = [pc |-> "second", op |-> op, ref |-> ref,
                           count |-> refresh.count + 1]
            /\ reader' = [reader EXCEPT !.live = Live(m.slots, m.objects)]
    /\ UNCHANGED <<arg_desc_set, value_completer, metrics, labels, heap, st,
                   prev, kv, completer, shell_vars, registry_vars>>

\* the second assignment of a refresh: the same list, or the list decoded
\* from the second response, is assigned to the second slot
RefreshSecond(op) ==
    /\ refresh.pc = "second"
    /\ refresh.op = op
    /\ \E data \in IF Refreshes[op].same_list THEN {objects[refresh.ref]}
                   ELSE NameLists :
        LET created == IF Refreshes[op].same_list THEN objects
                       ELSE Append(objects, data)
            ref == IF Refreshes[op].same_list THEN refresh.ref
                   ELSE Len(objects) + 1
            m == assign(created, slots, Refreshes[op].slots[2], ref)
        IN  /\ objects' = m.objects
            /\ slots' = m.slots
            /\ reader' = [reader EXCEPT !.live = Live(m.slots, m.objects)]
    /\ refresh' = [refresh EXCEPT !.pc = "idle", !.op = "", !.ref = 0]
    /\ UNCHANGED <<arg_desc_set, value_completer, metrics, labels, heap, st,
                   prev, kv, completer, shell_vars, registry_vars>>

\* a completion reads the list of a slot: choices = self.context.metrics
ReadSlot(slot) ==
    /\ reader.pc = "idle"
    /\ reader' = [pc |-> "reading", slot |-> slot, ref |-> slots[slot],
                  yielded |-> <<>>, live |-> {objects[slots[slot]]}]
    /\ UNCHANGED <<arg_desc_set, value_completer, metrics, labels, heap, st,
                   prev, kv, completer, objects, slots, refresh, shell_vars,
                   registry_vars>>

\* one turn of the loop over the list read, or its end
ReadNext ==
    /\ reader.pc = "reading"
    /\ LET n == Len(reader.yielded)
       IN  reader' = IF n < Len(objects[reader.ref])
                     THEN [reader EXCEPT
                             !.yielded = Append(@, objects[reader.ref][n + 1])]
                     ELSE [reader EXCEPT !.pc = "done"]
    /\ UNCHANGED <<arg_desc_set, value_completer, metrics, labels, heap, st,
                   prev, kv, completer, objects, slots, refresh, shell_vars,
                   registry_vars>>

\* the completions are dropped
ReadEnd ==
    /\ reader.pc = "done"
    /\ reader' = NoReader
    /\ UNCHANGED <<arg_desc_set, value_completer, metrics, labels, heap, st,
                   prev, kv, completer, objects, slots, refresh, shell_vars,
                   registry_vars>>

InitRefresh ==
    /\ arg_desc_set = SERIES_ARG_SPEC
    /\ value_completer = "GetSeries"
    /\ metrics = <<>>
    /\ labels = <<>>
    /\ heap = [r \in {TemplateRef} \cup Calls |->
                 IF r = TemplateRef THEN BuildDescList(arg_desc_set) ELSE <<>>]
    /\ st = [c \in Calls |-> Idle]
    /\ prev = <<>>
    /\ kv = NoKv
    /\ SideInit

NextRefresh ==
    \/ \E op \in DOMAIN Refreshes : RefreshFirst(op) \/ RefreshSecond(op)
    \/ \E slot \in Slots : ReadSlot(slot)
    \/ ReadNext
    \/ ReadEnd

SpecRefresh == InitRefresh /\ [][NextRefresh]_vars

\* C26: no step changes the contents of a list, and what a completion has
\* read of a list so far is the beginning - and when it is through, the
\* whole - of one list its slot has held since the completion read the slot
C26_CopyOnWrite ==
    /\ [][\A i \in 1..Len(objects) : objects'[i] = objects[i]]_vars
    /\ [](reader.pc # "idle"
            => \E list \in reader.live :
                 /\ Len(reader.yielded) <= Len(list)
                 /\ reader.yielded = SubSeq(list, 1, Len(reader.yielded))
                 /\ reader.pc = "done" => reader.yielded = list)

C26_Witness ==
    /\ reader.pc = "done"
    /\ reader.slot = "context.metrics"
    /\ reader.yielded = <<s_up, s_job>>
    /\ objects[slots[reader.slot]] = <<s_job, s_instance>>
    /\ Cardinality(reader.live) = 2

(***************************************************************************)
(* ShellCompleter (src/shell/shell.py).  A completer object is its id; an  *)
(* entry of a dict is <<>> for a missing key and <<completer>> otherwise.  *)
(***************************************************************************)
MaxSetCalls == 3
Completers == {1, 2}

\* set_completer that patches description and keeps the NestedCompleter
set_completer_no_rebuild(name, arg_comp) ==
    [description |-> [description EXCEPT ![name] = <<arg_comp>>],
     nested |-> nested]

\* ShellCompleter.set_completer(name, arg_comp)
set_completer(name, arg_comp) ==
    LET d == [description EXCEPT ![name] = <<arg_comp>>]
    IN  [description |-> d, nested |-> from_nested_dict(d, nested.id + 1)]

\* one call of set_completer
SetCompleter(name, arg_comp) ==
    /\ Len(set_calls) < MaxSetCalls
    /\ LET r == set_completer(name, arg_comp)
       IN  /\ description' = r.description
           /\ nested' = r.nested
    /\ set_calls' = Append(set_calls, [name |-> name, arg_comp |-> arg_comp])
    /\ UNCHANGED <<arg_desc_set, value_completer, metrics, labels, heap, st,
                   prev, kv, completer, refresh_vars, registry_vars>>

InitShell ==
    /\ arg_desc_set = TEST_ARG_SPEC
    /\ value_completer = "None"
    /\ metrics = <<>>
    /\ labels = <<>>
    /\ heap = [r \in {TemplateRef} \cup Calls |->
                 IF r = TemplateRef THEN BuildDescList(arg_desc_set) ELSE <<>>]
    /\ st = [c \in Calls |-> Idle]
    /\ prev = <<>>
    /\ kv = NoKv
    /\ SideInit

NextShell == \E name \in Names, arg_comp \in Completers : SetCompleter(name, arg_comp)

SpecShell == InitShell /\ [][NextShell]_vars

\* the completer of the last set_completer call made for name, if any
LastRegistered(name) ==
    LET made == {i \in 1..Len(set_calls) : set_calls[i].name = name}
    IN  IF made = {} THEN <<>>
        ELSE <<set_calls[CHOOSE i \in made : \A j \in made : j <= i].arg_comp>>

\* C27: the dispatch table sends every name to the completer registered
\* last under it and holds no other name; every call builds a new table and
\* leaves the entries of the other names as they were
C27_DispatchRebuild ==
    /\ [](\A name \in Names : nested.options[name] = LastRegistered(name))
    /\ [][/\ nested'.id # nested.id
          /\ \A name \in Names :
               name # set_calls'[Len(set_calls')].name
               => nested'.options[name] = nested.options[name]]_vars

C27_Witness ==
    /\ Len(set_calls) = MaxSetCalls
    /\ set_calls[1].name = "series"
    /\ set_calls[2].name = "help"
    /\ set_calls[3].name = "series"
    /\ set_calls[1].arg_comp # set_calls[3].arg_comp
    /\ nested.options["series"] = <<set_calls[3].arg_comp>>

\* C28: choices is the configured list when that holds a value, otherwise
\* - none configured, or an empty list configured - the one-element list of
\* the descriptor's placeholder; it is never empty
C28_ChoicesNeverEmpty ==
    completer.pc = "constructed"
    => \A i \in 1..Len(completer.arg_desc_list) :
         LET desc == completer.arg_desc_list[i]
             configured == desc.kw.choices
         IN  /\ choices(desc) # <<>>
             /\ IF configured # <<>> /\ configured[1] # <<>>
                THEN choices(desc) = configured[1]
                ELSE choices(desc) = <<metavar(desc)>>

\* the remaining switch the final, space-terminated word of the line of
\* finished call c matches: <<>> without any, <<switch>> otherwise
FinalSwitch(c) ==
    LET ws == Words(c)
        m == IF ws # <<>> /\ st[c].trailing_space
             THEN find_option_argument(Remaining(c), ws[Len(ws)]) ELSE <<>>
    IN  IF m # <<>> /\ is_flag(m[1]) THEN m ELSE <<>>

\* C29: when the final word is followed by a space and matches a remaining
\* switch, the call returns the full-argument-set completion and no flag of
\* that switch is among the completions
C29_FinalSwitchNotOffered ==
    \A c \in Calls :
        (st[c].pc = "done" /\ FinalSwitch(c) # <<>>)
        => /\ FullArgumentSet(c)
           /\ \A f \in Range(FinalSwitch(c)[1].flags) : f \notin Range(st[c].items)

\* the line of call c is 'SWITCH word ': a flag of a switch of the template,
\* then a space-terminated word without a dash in front
SwitchThenWord(c) ==
    LET ws == Words(c)
    IN  /\ Len(ws) = 2
        /\ st[c].trailing_space
        /\ LET m == find_option_argument(heap[TemplateRef], ws[1])
           IN  m # <<>> /\ is_flag(m[1])
        /\ find_option_argument(heap[TemplateRef], ws[2]) = <<>>
        /\ ~StartsWith(ws[2], s_dash)

\* C30: on 'SWITCH word ' the word is taken for the value of the first
\* positional: that positional is removed from the remaining list and its
\* candidates are not among the completions
C30_WordAfterSwitch ==
    \A c \in Calls :
        (st[c].pc = "done" /\ SwitchThenWord(c)
            /\ Positionals(heap[TemplateRef]) # <<>>)
        => LET tp == Positionals(heap[TemplateRef])
           IN  /\ st[c].raised = NoError
               /\ Positionals(Remaining(c)) = Tail(tp)
               /\ \A x \in Range(Candidates(c, tp[1])) : x \notin Range(st[c].items)

\* the number of elements of seq equal to x
Count(seq, x) == Cardinality({i \in 1..Len(seq) : seq[i] = x})

\* C31: a flag of an option or switch typed before the final word, primary
\* or alias, consumes that descriptor; the full-argument-set completion
\* holds the primary flag of every remaining option and switch exactly once
\* and none of their other flags
C31_AliasesAndPrimaryFlag ==
    \A c \in Calls :
        FullArgumentSet(c)
        => LET ws == Words(c)
               template == heap[TemplateRef]
           IN  /\ \A i \in 1..(Len(ws) - 1) : \A k \in 1..Len(template) :
                    (~is_positional(template[k]) /\ ws[i] \in Range(template[k].flags))
                    => template[k] \notin Range(Remaining(c))
               /\ \A d \in Range(Options(Remaining(c))) :
                    /\ Count(st[c].items, d.flags[1]) = 1
                    /\ \A j \in 2..Len(d.flags) : d.flags[j] \notin Range(st[c].items)

\* C32: completion_for_positional is only called with a positional
\* descriptor: its assertion fails in no call
C32_AssertionHolds ==
    \A c \in Calls : st[c].raised # "AssertionError"

\* a is b with some elements left out, the others in b's order
RECURSIVE IsSubsequence(_, _)
IsSubsequence(a, b) ==
    IF a = <<>> THEN TRUE
    ELSE IF b = <<>> THEN FALSE
    ELSE IF Head(a) = Head(b) THEN IsSubsequence(Tail(a), Tail(b))
    ELSE IsSubsequence(a, Tail(b))

\* list without the descriptor desc itself
Without(list, desc) ==
    LET keep(d) == d # desc IN SelectSeq(list, keep)

\* C33: the remaining list of a call is always a subsequence of the
\* template; one call of resolve_completion removes at most one descriptor,
\* and for a non-final word that matches a flag it removes the matched
\* descriptor itself
C33_RemainingList ==
    /\ [](\A c \in Calls :
            st[c].pc \in {"resolve", "yield_empty", "done"}
            => IsSubsequence(Remaining(c), heap[TemplateRef]))
    /\ [][\A c \in Calls :
            (st[c].pc = "resolve" /\ st'[c] # st[c])
            => LET old == heap[st[c].arg_desc_list]
                   new == heap'[st[c].arg_desc_list]
                   m == IF st[c].word_list = <<>> THEN <<>>
                        ELSE find_option_argument(old, Head(st[c].word_list))
               IN  /\ IsSubsequence(new, old)
                   /\ Len(old) - Len(new) <= 1
                   /\ (m # <<>> /\ Len(st[c].word_list) > 1)
                      => new = Without(old, m[1])]_vars

\* C34: after a call of resolve_completion has consumed a word, a set
\* arg_descriptor is a non-positional descriptor of the template one of whose
\* flags is that word; set by a non-final word it is gone from the remaining
\* list; after a non-final word that matches no flag it is None
C34_ActiveDescriptor ==
    [][\A c \in Calls :
        (st[c].pc = "resolve" /\ st'[c] # st[c] /\ st[c].word_list # <<>>)
        => LET word == Head(st[c].word_list)
               last_word == Len(st[c].word_list) = 1
               matching_arg == find_option_argument(heap[st[c].arg_desc_list], word)
               active == st'[c].arg_descriptor
           IN  /\ active # <<>>
                  => /\ active[1] \in Range(heap[TemplateRef])
                     /\ ~is_positional(active[1])
                     /\ word \in Range(active[1].flags)
               /\ (~last_word /\ active # <<>>)
                  => active[1] \notin Range(heap'[st[c].arg_desc_list])
               /\ (~last_word /\ matching_arg = <<>>) => active = <<>>]_vars

MaxRegisterCalls == 2
Handlers == {1, 2}

\* the values of the keyword argument 'arguments': not given, an empty
\* ARG_SPEC, an ARG_SPEC
RegisterArguments ==
    {[type |-> "NoneType", value |-> <<>>],
     [type |-> "dict", value |-> <<>>],
     [type |-> "dict", value |-> SERIES_ARG_SPEC]}

\* Shell.register_handler(name, handler, arguments=arg_desc_set)
RegisterHandler(name, handler, obj) ==
    /\ register.calls < MaxRegisterCalls
    /\ subparser_map' = [subparser_map EXCEPT ![name] = <<register.calls + 1>>]
    /\ handler_map' = [handler_map EXCEPT ![name] = <<handler>>]
    /\ LET built == ArgumentCompleter_init(obj)
           arg_comp == Len(set_calls) + 1
           r == set_completer(name, arg_comp)
       IN  IF built.raised # NoError
           THEN /\ register' = [calls |-> register.calls + 1, raised |-> built.raised]
                /\ UNCHANGED shell_vars
           ELSE /\ register' = [calls |-> register.calls + 1, raised |-> NoError]
                /\ description' = r.description
                /\ nested' = r.nested
                /\ set_calls' = Append(set_calls, [name |-> name, arg_comp |-> arg_comp])
    /\ UNCHANGED <<arg_desc_set, value_completer, metrics, labels, heap, st,
                   prev, kv, completer, refresh_vars, run, net, handler_call>>

\* the Shell after __init__: register_builtin_handlers has registered help
\* with HelpAction.ARG_SPEC and exit with the empty ExitAction.ARG_SPEC
InitRegister ==
    /\ arg_desc_set = TEST_ARG_SPEC
    /\ value_completer = "None"
    /\ metrics = <<>>
    /\ labels = <<>>
    /\ heap = [r \in {TemplateRef} \cup Calls |->
                 IF r = TemplateRef THEN BuildDescList(arg_desc_set) ELSE <<>>]
    /\ st = [c \in Calls |-> Idle]
    /\ prev = <<>>
    /\ kv = NoKv
    /\ completer = NoCompleter
    /\ RefreshInit
    /\ LET d == [name \in Names |->
                   IF name = "help" THEN <<1>> ELSE IF name = "exit" THEN <<2>> ELSE <<>>]
       IN  /\ description = d
           /\ nested = from_nested_dict(d, 2)
           /\ set_calls = <<[name |-> "help", arg_comp |-> 1],
                            [name |-> "exit", arg_comp |-> 2]>>
           /\ handler_map = d
           /\ subparser_map = d
    /\ register = [calls |-> 0, raised |-> NoError]
    /\ run = NoRun
    /\ net = NetInit
    /\ handler_call = NoHandlerCall

NextRegister ==
    \E name \in Names, handler \in Handlers, obj \in RegisterArguments :
        RegisterHandler(name, handler, obj)

SpecRegister == InitRegister /\ [][NextRegister]_vars

\* the names a map holds
Keys(map) == {name \in Names : map[name] # <<>>}

\* C36: after any register_handler calls, returned or raised, handler_map,
\* subparser_map and the options of the NestedCompleter hold the same names
C36_SameNames ==
    /\ Keys(handler_map) = Keys(subparser_map)
    /\ Keys(handler_map) = Keys(nested.options)

(***************************************************************************)
(* Shell.run.  A line is None or the list of its words; the commands are   *)
(* help, exit and series, registered as PromShell registers them.          *)
(***************************************************************************)
MaxLines == 2
MaxLineWords == 2

RunWords == Names \cup {"bogus", "-h"}

\* what prompt() returns: None, or a line of words (none for a blank line)
Texts ==
    {[none |-> TRUE, words |-> <<>>]}
        \cup {[none |-> FALSE, words |-> w] :
                 w \in UNION {[1..n -> RunWords] : n \in 0..MaxLineWords}}

\* self.parser.parse_args(command_spec): the Namespace, or SystemExit for a
\* usage error and for -h
parse_args(command_spec) ==
    LET command == command_spec[1]
        rest == Tail(command_spec)
        usage == [raised |-> "SystemExit", command |-> "", action |-> <<>>]
    IN  IF command \notin Keys(subparser_map)
           \/ \E i \in 1..Len(rest) : rest[i] = "-h"
        THEN usage
        ELSE IF command = "exit"
             THEN IF rest = <<>>
                  THEN [raised |-> NoError, command |-> command, action |-> <<>>]
                  ELSE usage
             ELSE IF Len(rest) > 1 THEN usage
                  ELSE [raised |-> NoError, command |-> command, action |-> rest]

\* the exceptions `except Exception` does not catch
BaseExceptions == {"SystemExit", "KeyboardInterrupt"}

\* an except clause that catches nothing
except_Exception_none(exc) == FALSE

\* except Exception as exc
except_Exception(exc) == exc \notin BaseExceptions

\* what handler.handle(arguments) can do: its result, or what it raises
HandleOutcomes(arguments) ==
    IF arguments.command = "exit"
    THEN {[raised |-> "SystemExit", result |-> <<>>]}
    ELSE IF arguments.command = "help"
         THEN IF arguments.action # <<>> /\ arguments.action[1] \notin Keys(subparser_map)
              THEN {[raised |-> "KeyError", result |-> <<>>]}
              ELSE {[raised |-> NoError, result |-> <<>>]}
         ELSE {[raised |-> NoError, result |-> <<"data">>],
               [raised |-> NoError, result |-> <<>>],
               [raised |-> "ConnectionRefusedError", result |-> <<>>]}

\* text = self.prompt.prompt(); a blank line or None goes round again
ReadLine ==
    /\ run.pc = "prompt"
    /\ run.lines < MaxLines
    /\ \E text \in Texts :
        run' = IF text.none \/ text.words = <<>>
               THEN [run EXCEPT !.lines = @ + 1, !.log = Append(@, "blank")]
               ELSE [run EXCEPT !.pc = "parse", !.text = text.words, !.lines = @ + 1]
    /\ UNCHANGED <<arg_desc_set, value_completer, metrics, labels, heap, st,
                   prev, kv, completer, refresh_vars, shell_vars,
                   handler_map, subparser_map, register, net, handler_call>>

\* the first try block
ParseArgs ==
    /\ run.pc = "parse"
    /\ LET arguments == parse_args(run.text)
       IN  run' = IF arguments.raised = "SystemExit"
                  THEN [run EXCEPT !.pc = "prompt", !.log = Append(@, "usage")]
                  ELSE [run EXCEPT !.pc = "handle", !.arguments = <<arguments>>]
    /\ UNCHANGED <<arg_desc_set, value_completer, metrics, labels, heap, st,
                   prev, kv, completer, refresh_vars, shell_vars,
                   handler_map, subparser_map, register, net, handler_call>>

\* the second try block
Handle ==
    /\ run.pc = "handle"
    /\ \E out \in HandleOutcomes(run.arguments[1]) :
        run' = IF out.raised = NoError
               THEN [run EXCEPT !.pc = "prompt", !.arguments = <<>>,
                                !.log = Append(@, IF out.result # <<>>
                                                  THEN "printed" ELSE "nothing")]
               ELSE IF except_Exception(out.raised)
                    THEN [run EXCEPT !.pc = "prompt", !.arguments = <<>>,
                                     !.log = Append(@, "command error")]
                    ELSE [run EXCEPT !.pc = "ended",
                                     !.log = Append(@, out.raised)]
    /\ UNCHANGED <<arg_desc_set, value_completer, metrics, labels, heap, st,
                   prev, kv, completer, refresh_vars, shell_vars,
                   handler_map, subparser_map, register, net, handler_call>>

\* run() is entered on a Shell on which help, exit and series are registered
InitRun ==
    /\ arg_desc_set = TEST_ARG_SPEC
    /\ value_completer = "None"
    /\ metrics = <<>>
    /\ labels = <<>>
    /\ heap = [r \in {TemplateRef} \cup Calls |->
                 IF r = TemplateRef THEN BuildDescList(arg_desc_set) ELSE <<>>]
    /\ st = [c \in Calls |-> Idle]
    /\ prev = <<>>
    /\ kv = NoKv
    /\ completer = NoCompleter
    /\ RefreshInit
    /\ LET d == [name \in Names |->
                   IF name = "help" THEN <<1>> ELSE IF name = "exit" THEN <<2>> ELSE <<3>>]
       IN  /\ description = d
           /\ nested = from_nested_dict(d, 3)
           /\ set_calls = <<[name |-> "help", arg_comp |-> 1],
                            [name |-> "exit", arg_comp |-> 2],
                            [name |-> "series", arg_comp |-> 3]>>
           /\ handler_map = d
           /\ subparser_map = d
    /\ register = [calls |-> 1, raised |-> NoError]
    /\ run = [NoRun EXCEPT !.pc = "prompt"]
    /\ net = NetInit
    /\ handler_call = NoHandlerCall

NextRun == ReadLine \/ ParseArgs \/ Handle

\* the statements of the loop body follow each other in one thread
SpecRun == InitRun /\ [][NextRun]_vars /\ WF_vars(ParseArgs) /\ WF_vars(Handle)

MaxConnects == 2
MaxRequests == 2

s_other == <<"h", ":", "9", "0", "9", "0">>
s_localhost == <<"l", "o", "c", "a", "l", "h", "o", "s", "t">>

\* the values of the address argument of connect
Addresses == {SERVER_ADDRESS_DEFAULT, s_other, s_localhost}

RequestKinds == {"query", "series", "labels", "fetch"}

\* self.factory.http_connection.host + '%s' % self.factory.http_connection.port
current_address(connection) == connection.host \o connection.port

\* ConnectHandler.handle(command_args) with command_args.address given
Connect(server_address) ==
    /\ net.connects < MaxConnects
    /\ net' = IF current_address(net.connections[net.http_connection]) # server_address
              THEN [net EXCEPT
                      !.connections = Append(@, HTTPConnection(server_address)),
                      !.http_connection = Len(net.connections) + 1,
                      !.address = server_address,
                      !.result = <<"Connection established">>,
                      !.connects = @ + 1]
              ELSE [net EXCEPT !.address = server_address,
                               !.result = <<>>, !.connects = @ + 1]
    /\ UNCHANGED <<arg_desc_set, value_completer, metrics, labels, heap, st,
                   prev, kv, completer, refresh_vars, shell_vars,
                   handler_map, subparser_map, register, run, handler_call>>

\* AbstractGetHandler.handle / HandlerFactory.fetch: the request goes
\* through HandlerContext.handle_request, over self.http_conn
Request(kind) ==
    /\ Len(net.requests) < MaxRequests
    /\ net' = [net EXCEPT !.requests = Append(@, [kind |-> kind,
                                                   conn |-> net.http_conn])]
    /\ UNCHANGED <<arg_desc_set, value_completer, metrics, labels, heap, st,
                   prev, kv, completer, refresh_vars, shell_vars,
                   handler_map, subparser_map, register, run, handler_call>>

InitConnect ==
    /\ arg_desc_set = TEST_ARG_SPEC
    /\ value_completer = "None"
    /\ metrics = <<>>
    /\ labels = <<>>
    /\ heap = [r \in {TemplateRef} \cup Calls |->
                 IF r = TemplateRef THEN BuildDescList(arg_desc_set) ELSE <<>>]
    /\ st = [c \in Calls |-> Idle]
    /\ prev = <<>>
    /\ kv = NoKv
    /\ SideInit

NextConnect ==
    \/ \E server_address \in Addresses : Connect(server_address)
    \/ \E kind \in RequestKinds : Request(kind)

SpecConnect == InitConnect /\ [][NextConnect]_vars

\* the connection that was established last
Established == Len(net.connections)

\* C38: a request is sent over the connection established last; a connect
\* to the host and port of that connection creates no connection and
\* returns an empty result
C38_NewConnectionUsed ==
    [][/\ net'.requests # net.requests
          => net'.requests[Len(net'.requests)].conn = Established
       /\ (/\ net'.connects # net.connects
           /\ HTTPConnection(net'.address) = net.connections[Established])
          => (net'.connections = net.connections /\ net'.result = <<>>)]_vars

(***************************************************************************)
(* get_completions of the command handlers, called as the                  *)
(* HandlerValueCompleter of the Shell calls it.  The help texts of the     *)
(* descriptors are left out.                                               *)
(***************************************************************************)
s_expression == <<"e", "x", "p", "r", "e", "s", "s", "i", "o", "n">>
s_label == <<"l", "a", "b", "e", "l">>
s_action == <<"a", "c", "t", "i", "o", "n">>

\* Query.ARG_SPEC
QUERY_ARG_SPEC ==
    << [key |-> s_expression,
        kwargs |-> [NoKw EXCEPT !.nargs = <<s_nargs>>, !.metavar = <<<<"<", "q", "u", "e", "r", "y", "_", "e", "x", "p", ">">>>>]],
       [key |-> <<"i", "n", "s", "t", "a", "n", "t">>,
        kwargs |-> [NoKw EXCEPT !.flags = <<<<"-", "i">>, <<"-", "-", "i", "n", "s", "t", "a", "n", "t">>>>,
                                !.nargs = <<s_nargs>>, !.metavar = <<<<"<", "t", "i", "m", "e", "s", "t", "a", "m", "p", ">">>>>]],
       [key |-> <<"r", "a", "n", "g", "e">>,
        kwargs |-> [NoKw EXCEPT !.flags = <<<<"-", "r">>, <<"-", "-", "r", "a", "n", "g", "e">>>>,
                                !.nargs = <<s_nargs>>, !.metavar = <<<<"<", "s", "t", "a", "r", "t", "_", "t", ",", "e", "n", "d", "_", "t", ">">>>>]],
       [key |-> <<"s", "t", "e", "p">>,
        kwargs |-> [NoKw EXCEPT !.flags = <<<<"-", "s">>, <<"-", "-", "s", "t", "e", "p">>>>, !.nargs = <<s_nargs>>]],
       [key |-> <<"t", "i", "m", "e", "o", "u", "t">>,
        kwargs |-> [NoKw EXCEPT !.flags = <<<<"-", "t">>, <<"-", "-", "t", "i", "m", "e", "o", "u", "t">>>>, !.nargs = <<s_nargs>>]] >>

\* Labels.ARG_SPEC
LABELS_ARG_SPEC ==
    << [key |-> s_label,
        kwargs |-> [NoKw EXCEPT !.nargs = <<s_nargs>>, !.metavar = <<<<"<", "l", "a", "b", "e", "l", "_", "n", "a", "m", "e", ">">>>>]],
       [key |-> <<"r", "a", "n", "g", "e">>,
        kwargs |-> [NoKw EXCEPT !.flags = <<<<"-", "r">>, <<"-", "-", "r", "a", "n", "g", "e">>>>,
                                !.nargs = <<s_nargs>>, !.metavar = <<<<"<", "s", "t", "a", "r", "t", "_", "t", ",", "e", "n", "d", "_", "t", ">">>>>]] >>

\* Shell.HelpAction.ARG_SPEC
HELP_ARG_SPEC ==
    << [key |-> s_action,
        kwargs |-> [NoKw EXCEPT !.nargs = <<s_nargs>>, !.metavar = <<<<"<", "c", "o", "m", "m", "a", "n", "d", ">">>>>]] >>

\* the handlers and the descriptor set each is registered with
HandlerArgSpec ==
    [GetQuery |-> QUERY_ARG_SPEC, GetSeries |-> SERIES_ARG_SPEC,
     GetLabels |-> LABELS_ARG_SPEC, HelpAction |-> HELP_ARG_SPEC]

\* AbstractGetHandler.complete_word_for_choices(context, choices, style)
complete_word_for_choices(context, choice_list) ==
    [raised |-> NoError, items |-> WordCompleter(choice_list, context.document)]

\* GetQuery.get_completions(context)
GetQuery_get_completions(context) ==
    IF context.arg_descriptor.name = s_expression /\ metrics # <<>>
    THEN complete_word_for_choices(context, metrics)
    ELSE complete_word_for_choices(context, <<metavar(context.arg_descriptor)>>)

\* GetLabels.get_completions(context): AbstractGetHandler has no
\* get_word_completions_for_choices
GetLabels_get_completions(context) ==
    [raised |-> "AttributeError", items |-> <<>>]

\* Shell.HelpAction.get_completions(context): HelpAction has no parsers
HelpAction_get_completions(context) ==
    [raised |-> "AttributeError", items |-> <<>>]

\* Shell.HandlerValueCompleter(handler).get_completions(context)
HandlerValueCompleter(handler, context) ==
    IF handler = "GetQuery" THEN GetQuery_get_completions(context)
    ELSE IF handler = "GetSeries"
         THEN [raised |-> NoError, items |-> GetSeries_get_completions(context)]
         ELSE IF handler = "GetLabels" THEN GetLabels_get_completions(context)
              ELSE HelpAction_get_completions(context)

\* the value typed so far
HandlerWords == {<<>>, <<"u">>, s_up, s_job \o s_eq}

HandlerGetCompletions ==
    /\ ~handler_call.called
    /\ \E handler \in DOMAIN HandlerArgSpec, word \in HandlerWords :
        \E arg_descriptor \in Range(BuildDescList(HandlerArgSpec[handler])),
           cursor \in {0, Len(word)} :
            LET context == CompletionContext([text |-> word, cursor |-> cursor],
                                             arg_descriptor, word)
                r == HandlerValueCompleter(handler, context)
            IN  handler_call' = [called |-> TRUE, handler |-> handler,
                                 context |-> <<context>>,
                                 raised |-> r.raised, items |-> r.items]
    /\ UNCHANGED <<arg_desc_set, value_completer, metrics, labels, heap, st,
                   prev, kv, completer, refresh_vars, shell_vars,
                   handler_map, subparser_map, register, run, net>>

HandlerRelease ==
    /\ handler_call.called
    /\ handler_call' = NoHandlerCall
    /\ UNCHANGED <<arg_desc_set, value_completer, metrics, labels, heap, st,
                   prev, kv, completer, refresh_vars, shell_vars,
                   handler_map, subparser_map, register, run, net>>

\* the lists are what fetch has left in the HandlerContext
InitHandlers ==
    /\ arg_desc_set = SERIES_ARG_SPEC
    /\ value_completer = "GetSeries"
    /\ metrics \in {<<>>, <<s_up>>}
    /\ labels \in {<<>>, <<s_job, s_instance>>}
    /\ heap = [r \in {TemplateRef} \cup Calls |->
                 IF r = TemplateRef THEN BuildDescList(arg_desc_set) ELSE <<>>]
    /\ st = [c \in Calls |-> Idle]
    /\ prev = <<>>
    /\ kv = NoKv
    /\ SideInit

NextHandlers == HandlerGetCompletions \/ HandlerRelease

SpecHandlers == InitHandlers /\ [][NextHandlers]_vars

\* the argument of a handler that bears fetched names, and the names
NameBearing ==
    [GetQuery |-> [name |-> s_expression, names |-> metrics],
     GetSeries |-> [name |-> s_metric, names |-> metrics],
     GetLabels |-> [name |-> s_label, names |-> labels]]

\* C39: the query, series and labels handlers complete their name-bearing
\* argument from the fetched names when there are any, and every other
\* argument, or any argument while there are none, from the metavar alone
\* (the candidates that start with the word before the cursor); no
\* handler's get_completions raises
C39_HandlerCompletions ==
    handler_call.called
    => /\ handler_call.raised = NoError
       /\ handler_call.handler \in DOMAIN NameBearing
          => LET context == handler_call.context[1]
                 bearing == NameBearing[handler_call.handler]
                 expected == IF context.arg_descriptor.name = bearing.name
                                /\ bearing.names # <<>>
                             THEN bearing.names
                             ELSE <<metavar(context.arg_descriptor)>>
             IN  handler_call.items = WordCompleter(expected, context.document)

====
